---------------------------- MODULE Spec2Model ----------------------------
(***************************************************************************)
(* Gesture interpretation state machine and action dispatcher of the       *)
(* hand-gesture pointer controller.  Two implementations of the same       *)
(* machine are modelled side by side:                                      *)
(*   ControladorGestos  (src/DetectorGestosOptimizado.py), prefix CG_      *)
(*   DetectorGestos     (src/detectorGestos.py),           prefix DG_      *)
(* A behaviour runs one of them; the variable impl says which.  Other      *)
(* kinds of behaviour call one function on its own (the coordinate mapping,*)
(* the homography solve, the fist test, the smoothers), among them the     *)
(* smoother of ControladorGestos in src/control_gestos_mejorado.py, whose  *)
(* window changes at run time.                                             *)
(*                                                                         *)
(* A frame is the list of 0..2 hands the hand tracker returns, each hand   *)
(* its 21 landmarks in pixels.  Distances are kept squared (the code takes *)
(* the square root and compares; both sides are >= 0, so the comparisons   *)
(* are the same on the squares).                                           *)
(***************************************************************************)
EXTENDS Integers, Sequences, FiniteSets, TLC

VARIABLES
    impl,        \* which class is running
    cg,          \* the fields of the ControladorGestos object
    dg,          \* the fields of the DetectorGestos object
    info_gesto,  \* the InfoGesto the last procesar_frame returned
    acciones,    \* the pyautogui calls the last operation issued, in order
    rechazo,     \* whether pyautogui refused a call of the last operation (FailSafeException)
    entrada,     \* the last frame as given: the pose of each hand
    ruta,        \* the path the last procesar_frame took
    op,          \* the last operation
    desde_click, \* ticks since pyautogui.click last succeeded, up to doble_click_ventana
    transcurrido, \* desde_click as it was when the last frame was classified
    distancia,   \* the squared distance between the two hands of the last frame
    linea_base,  \* that distance on the first frame of the present run of two-fist frames
    permanencia, \* the corner a fingertip has stayed at over the last frames, and for how long
    mapeo        \* the last call of a function made on its own: arguments and result

vars == <<impl, cg, dg, info_gesto, acciones, rechazo, entrada, ruta, op,
          desde_click, transcurrido, distancia, linea_base, permanencia, mapeo>>

(***************************************************************************)
(* Bounds of the model and program constants                               *)
(***************************************************************************)
\* the configured smoothing window (config gestos.suavizado_movimiento; the
\* shipped default is 5)
SuavizadoMovimiento == 2

distancia_pinza == 40
distancia_calibracion == 50
screen_width == 1920
screen_height == 1080
ancho == 640
altura == 480
margen == 100
borde_marcador == 50

None == <<>>
SinDistancia == -1

Max(a, b) == IF a >= b THEN a ELSE b
Min(a, b) == IF a <= b THEN a ELSE b

(***************************************************************************)
(* Geometry utilities                                                      *)
(***************************************************************************)
\* landmark i (0..20) of a hand
P(puntos, i) == puntos[i + 1]

\* _calcular_distancia, squared
calcular_distancia2(p1, p2) ==
    (p1[1] - p2[1]) * (p1[1] - p2[1]) + (p1[2] - p2[2]) * (p1[2] - p2[2])

\* d < umbral, for a distance d >= 0 given by its square d2
MenorQue(d2, umbral) == d2 < umbral * umbral

punta_dedos == <<8, 12, 16, 20>>
base_dedos == <<5, 9, 13, 17>>

\* _es_puño_cerrado asking for 2 fingers where it asks for 3
es_puno_cerrado_laxo(puntos) ==
    IF Len(puntos) < 21 THEN FALSE ELSE
    LET dedos_doblados ==
            Cardinality({k \in 1..4 :
                P(puntos, punta_dedos[k])[2] > P(puntos, base_dedos[k])[2]})
        palma == P(puntos, 0)
        puntas_cerca ==
            Cardinality({k \in 1..4 :
                100 * calcular_distancia2(P(puntos, punta_dedos[k]), palma)
                  < 169 * calcular_distancia2(P(puntos, base_dedos[1]), palma)})
    IN  dedos_doblados >= 2 /\ puntas_cerca >= 2

\* _es_puño_cerrado: at least 3 fingertips below their base, and at least 3
\* fingertips closer to the palm than 1.3 times the index base is
\* (d < 1.3 * b  <=>  100 * d^2 < 169 * b^2); the IndexError of a hand with
\* fewer than 21 landmarks is caught and answered with False
es_puno_cerrado(puntos) ==
    IF Len(puntos) < 21 THEN FALSE ELSE
    LET dedos_doblados ==
            Cardinality({k \in 1..4 :
                P(puntos, punta_dedos[k])[2] > P(puntos, base_dedos[k])[2]})
        palma == P(puntos, 0)
        puntas_cerca ==
            Cardinality({k \in 1..4 :
                100 * calcular_distancia2(P(puntos, punta_dedos[k]), palma)
                  < 169 * calcular_distancia2(P(puntos, base_dedos[1]), palma)})
    IN  dedos_doblados >= 3 /\ puntas_cerca >= 3

(***************************************************************************)
(* The frames given to the model: hands in a few poses at a few places     *)
(***************************************************************************)
Poses == {"abierta", "pinza_indice", "pinza_medio", "pinza_ambas",
          "puno", "puno_pinza_indice", "puno_pinza_medio"}

\* landmark offsets from the palm centre (landmark 0); y grows downwards
Desplazamiento(pose, i) ==
    CASE i = 0  -> <<0, 0>>
      [] i = 4  -> <<-60, -60>>
      [] i = 5  -> <<-30, -80>>
      [] i = 9  -> <<-10, -85>>
      [] i = 13 -> <<10, -80>>
      [] i = 17 -> <<30, -70>>
      [] i = 8  -> CASE pose \in {"pinza_indice", "pinza_ambas"} -> <<-50, -80>>
                     [] pose = "puno_pinza_indice" -> <<-40, -50>>
                     [] pose \in {"puno", "puno_pinza_medio"} -> <<-10, -45>>
                     [] OTHER -> <<-30, -120>>
      [] i = 12 -> CASE pose \in {"pinza_medio", "pinza_ambas"} -> <<-45, -75>>
                     [] pose = "puno_pinza_medio" -> <<-35, -45>>
                     [] pose \in {"puno", "puno_pinza_indice"} -> <<5, -45>>
                     [] OTHER -> <<-10, -130>>
      [] i = 16 -> IF pose \in {"puno", "puno_pinza_indice", "puno_pinza_medio"}
                   THEN <<15, -45>> ELSE <<10, -120>>
      [] i = 20 -> IF pose \in {"puno", "puno_pinza_indice", "puno_pinza_medio"}
                   THEN <<30, -40>> ELSE <<30, -105>>
      [] OTHER  -> <<0, -40>>

\* the 21 landmarks of a hand in the given pose with its palm centre at `en`
Mano(pose, en) ==
    [k \in 1..21 |->
        <<en[1] + Desplazamiento(pose, k - 1)[1],
          en[2] + Desplazamiento(pose, k - 1)[2]>>]

\* where the open hand of a one-hand frame may be; every other first hand
\* is at PrimerLugar, and a second hand at one of Lugares2
Lugares1 == {<<100, 240>>, <<400, 240>>}
PrimerLugar == <<100, 240>>
Lugares2 == {<<170, 240>>, <<200, 240>>, <<250, 240>>}
Poses1de2 == {"abierta", "puno", "puno_pinza_indice"}
Poses2 == {"abierta", "puno"}

\* the 21 landmarks of each hand of a frame given as a sequence of [pose, en]
Landmarks(frame) == [k \in 1..Len(frame) |-> Mano(frame[k].pose, frame[k].en)]

PosesDe(frame) == [k \in 1..Len(frame) |-> frame[k].pose]

\* a frame as the hand tracker returns it (manos), with the poses it shows
Entrada(frame) == [poses |-> PosesDe(frame), manos |-> Landmarks(frame)]

\* the frames with no hand, with one hand in a pose of `unas` (the open hand
\* at each of Lugares1), and with two hands in poses of `primeras` and
\* `segundas`
FramesDe(unas, primeras, segundas) ==
    {Entrada(<<>>)}
    \cup {Entrada(<<[pose |-> p, en |-> PrimerLugar]>>) : p \in unas}
    \cup {Entrada(<<[pose |-> "abierta", en |-> a]>>) : a \in Lugares1}
    \cup {Entrada(<<[pose |-> p, en |-> PrimerLugar], [pose |-> q, en |-> b]>>) :
            p \in primeras, q \in segundas, b \in Lugares2}

\* the frames of gesture operation given to ControladorGestos
Frames == FramesDe(Poses, Poses1de2, Poses2)

\* the frames given to DetectorGestos, which never looks for a fist
PosesDG == {"abierta", "pinza_indice", "pinza_medio", "pinza_ambas"}
FramesDG == FramesDe(PosesDG, Poses2, Poses2)

\* hands pointing at the calibration markers (index fingertip on the marker)
LugaresCalibracion == {<<80, 170>>, <<620, 170>>, <<620, 550>>, <<80, 550>>}

FramesCalibracion ==
    {Entrada(<<[pose |-> "abierta", en |-> a]>>) : a \in LugaresCalibracion}
    \cup {Entrada(<<[pose |-> "abierta", en |-> PrimerLugar], [pose |-> "abierta", en |-> b]>>) :
            b \in LugaresCalibracion}

\* the frames given to ControladorGestos in mode mesa
FramesMesa == Frames \cup FramesCalibracion

\* hands pointing at the corners DetectorGestos asks for, which it gives in
\* screen pixels: (50, 50), (screen_width - 50, 50), ... (index fingertip on
\* the corner)
LugaresCalibracionDG ==
    {<<80, 170>>, <<screen_width - 20, 170>>,
     <<screen_width - 20, screen_height + 70>>, <<80, screen_height + 70>>}

\* the frames given to DetectorGestos during a calibration session: no hand,
\* one open hand at a corner or away from every corner, two open hands away
\* from every corner
FramesCalibracionDG ==
    {Entrada(<<>>)}
    \cup {Entrada(<<[pose |-> "abierta", en |-> a]>>) : a \in LugaresCalibracionDG \cup {PrimerLugar}}
    \cup {Entrada(<<[pose |-> "abierta", en |-> PrimerLugar],
                    [pose |-> "abierta", en |-> <<170, 240>>]>>)}

\* the numbers of landmarks of the incomplete hands given to the model
LandmarksIncompletos == {4, 12}

\* the first n landmarks of an open hand at PrimerLugar
ManoIncompleta(n) == SubSeq(Mano("abierta", PrimerLugar), 1, n)

\* the frames with an incomplete hand: alone, or next to a complete open hand
FramesIncompletos ==
    {[poses |-> <<"incompleta">>, manos |-> <<ManoIncompleta(n)>>] : n \in LandmarksIncompletos}
    \cup {[poses |-> <<"abierta", "incompleta">>,
           manos |-> <<Mano("abierta", b), ManoIncompleta(n)>>] :
            n \in LandmarksIncompletos, b \in Lugares2}

(***************************************************************************)
(* Values shared by both classes                                           *)
(***************************************************************************)
InfoGesto(tipo, posicion) ==
    [tipo |-> tipo, posicion |-> posicion, punto_inicial |-> None]

\* np.interp(x, [x0, x1], [0, y1]) followed by int()
Interp(x, x0, x1, y1) ==
    IF x <= x0 THEN 0
    ELSE IF x >= x1 THEN y1
    ELSE ((x - x0) * y1) \div (x1 - x0)

RECURSIVE Suma(_, _)
Suma(lista, eje) ==
    IF lista = <<>> THEN 0 ELSE lista[1][eje] + Suma(Tail(lista), eje)

\* int(a / b) for a float quotient: truncation towards zero
Truncar(a, b) ==
    IF b = 0 THEN 0
    ELSE IF (a >= 0) = (b > 0) THEN (IF a >= 0 THEN a ELSE -a) \div (IF b > 0 THEN b ELSE -b)
    ELSE -((IF a >= 0 THEN a ELSE -a) \div (IF b > 0 THEN b ELSE -b))

\* a 3x3 matrix is kept as integer numerators over one denominator
Eye == [num |-> <<<<1, 0, 0>>, <<0, 1, 0>>, <<0, 0, 1>>>>, den |-> 1]

\* what a failed solve leaves in matriz_transformacion (numpy None)
Nula == [num |-> <<>>, den |-> 0]

Abs(a) == IF a >= 0 THEN a ELSE -a

RECURSIVE MCD(_, _)
MCD(a, b) == IF b = 0 THEN a ELSE MCD(b, a % b)

\* the same matrix over the least denominator
Reducir(matriz) ==
    LET m == matriz.num
        f(i) == MCD(MCD(Abs(m[i][1]), Abs(m[i][2])), Abs(m[i][3]))
        g == MCD(MCD(MCD(f(1), f(2)), f(3)), Abs(matriz.den))
    IN  IF g = 0 THEN matriz
        ELSE [num |-> [i \in 1..3 |-> [j \in 1..3 |-> m[i][j] \div g]],
              den |-> matriz.den \div g]

\* the homography that takes the axis-aligned rectangle with opposite corners
\* (x0, y0), (x1, y1) onto (0, 0), (w, h)
HomografiaRect(x0, y0, x1, y1, w, h) ==
    LET dx == x1 - x0
        dy == y1 - y0
    IN  [num |-> <<<<w * dy, 0, -(x0 * w * dy)>>,
                   <<0, h * dx, -(y0 * h * dx)>>,
                   <<0, 0, dx * dy>>>>,
         den |-> dx * dy]

\* cv2.findHomography / cv2.getPerspectiveTransform over 4 correspondences;
\* the frames of the model capture the corners of a rectangle in the order
\* top-left, top-right, bottom-right, bottom-left
Homografia(origen, destino) ==
    IF /\ Len(origen) = 4
       /\ origen[1][1] < origen[3][1] /\ origen[1][2] < origen[3][2]
       /\ origen[2] = <<origen[3][1], origen[1][2]>>
       /\ origen[4] = <<origen[1][1], origen[3][2]>>
    THEN LET d == HomografiaRect(origen[1][1], origen[1][2], origen[3][1], origen[3][2],
                                 destino[3][1] - destino[1][1], destino[3][2] - destino[1][2])
         IN  Reducir([num |-> <<<<d.num[1][1], 0, d.num[1][3] + destino[1][1] * d.den>>,
                                <<0, d.num[2][2], d.num[2][3] + destino[1][2] * d.den>>,
                                d.num[3]>>,
                      den |-> d.den])
    ELSE Nula

\* twice the signed area of the triangle a, b, c: the determinant of the
\* homogeneous points (x, y, 1); positive when a, b, c turn as the corners
\* top-left, top-right, bottom-right do
Det3(a, b, c) ==
    (b[1] - a[1]) * (c[2] - a[2]) - (c[1] - a[1]) * (b[2] - a[2])

\* the matrix that takes (1,0,0), (0,1,0), (0,0,1), (1,1,1) onto the
\* homogeneous points q[1], q[2], q[3], q[4] (up to scale)
BaseProyectiva(q) ==
    LET l1 == Det3(q[4], q[2], q[3])
        l2 == Det3(q[1], q[4], q[3])
        l3 == Det3(q[1], q[2], q[4])
        g == MCD(MCD(Abs(l1), Abs(l2)), Abs(l3))
        k1 == IF g = 0 THEN 0 ELSE l1 \div g
        k2 == IF g = 0 THEN 0 ELSE l2 \div g
        k3 == IF g = 0 THEN 0 ELSE l3 \div g
    IN  <<<<k1 * q[1][1], k2 * q[2][1], k3 * q[3][1]>>,
          <<k1 * q[1][2], k2 * q[2][2], k3 * q[3][2]>>,
          <<k1, k2, k3>>>>

\* the adjugate of a 3x3 matrix (its inverse up to scale)
Adjunta(m) ==
    LET c(i, j, k, l) == m[i][j] * m[k][l] - m[i][l] * m[k][j]
    IN  <<<<c(2, 2, 3, 3), -c(1, 2, 3, 3), c(1, 2, 2, 3)>>,
          <<-c(2, 1, 3, 3), c(1, 1, 3, 3), -c(1, 1, 2, 3)>>,
          <<c(2, 1, 3, 2), -c(1, 1, 3, 2), c(1, 1, 2, 2)>>>>

Producto(a, b) ==
    [i \in 1..3 |-> [j \in 1..3 |->
        a[i][1] * b[1][j] + a[i][2] * b[2][j] + a[i][3] * b[3][j]]]

\* cv2.findHomography / cv2.getPerspectiveTransform over 4 correspondences
\* in general position: the one homography that takes origen[i] onto
\* destino[i], which OpenCV scales so that its last coefficient is 1
HomografiaGeneral(origen, destino) ==
    LET p == Producto(BaseProyectiva(destino), Adjunta(BaseProyectiva(origen)))
        signo == IF p[3][3] < 0 THEN -1 ELSE 1
        h == [i \in 1..3 |-> [j \in 1..3 |-> signo * p[i][j]]]
    IN  Reducir([num |-> h, den |-> h[3][3]])

\* _transformar_coordenadas without its perspective divide
transformar_coordenadas_sin_dividir(matriz, punto) ==
    LET m == matriz.num
        X == m[1][1] * punto[1] + m[1][2] * punto[2] + m[1][3]
        Y == m[2][1] * punto[1] + m[2][2] * punto[2] + m[2][3]
    IN  <<Truncar(X, matriz.den), Truncar(Y, matriz.den)>>

\* np.dot(matriz, [x, y, 1]), then the perspective divide when w != 0
transformar_coordenadas(matriz, punto) ==
    LET m == matriz.num
        X == m[1][1] * punto[1] + m[1][2] * punto[2] + m[1][3]
        Y == m[2][1] * punto[1] + m[2][2] * punto[2] + m[2][3]
        W == m[3][1] * punto[1] + m[3][2] * punto[2] + m[3][3]
    IN  IF W # 0 THEN <<Truncar(X, W), Truncar(Y, W)>>
        ELSE <<Truncar(X, matriz.den), Truncar(Y, matriz.den)>>

\* the four projection corners and their markers in the camera frame
CG_puntos_proyeccion ==
    <<<<0, 0>>, <<screen_width, 0>>, <<screen_width, screen_height>>, <<0, screen_height>>>>

CG_marcador(i) ==
    <<Max(borde_marcador, Min((CG_puntos_proyeccion[i][1] * ancho) \div screen_width, ancho - borde_marcador)),
      Max(borde_marcador, Min((CG_puntos_proyeccion[i][2] * altura) \div screen_height, altura - borde_marcador))>>

\* the calibration a previous run saved to calibracion_matriz.npy
MatrizArchivo ==
    Homografia(<<CG_marcador(1), CG_marcador(2), CG_marcador(3), CG_marcador(4)>>,
               CG_puntos_proyeccion)


(***************************************************************************)
(* ControladorGestos (src/DetectorGestosOptimizado.py)                     *)
(***************************************************************************)
\* __init__ / _inicializar_estados / _inicializar_calibracion; `archivo`
\* says whether calibracion_matriz.npy exists (_cargar_calibracion)
CG_init(archivo) ==
    [modo |-> "pantalla",
     clicking |-> FALSE,
     right_clicking |-> FALSE,
     dragging |-> FALSE,
     zoom_mode |-> FALSE,
     punto_inicial_arrastre |-> None,
     distancia_punos_inicial |-> SinDistancia,
     haciendo_zoom |-> FALSE,
     historial_posiciones |-> <<>>,
     matriz_transformacion |-> IF archivo THEN MatrizArchivo ELSE Eye,
     en_calibracion |-> FALSE,
     puntos_calibracion_camara |-> <<>>,
     calibracion_completada |-> archivo]

\* _calcular_posicion_cursor: the state after it and the position it returns
CG_calcular_posicion_cursor(s, pulgar_punta) ==
    IF s.modo = "pantalla"
    THEN LET screen_x == Interp(pulgar_punta[1], margen, ancho - margen, screen_width)
             screen_y == Interp(pulgar_punta[2], margen, altura - margen, screen_height)
             largo == Append(s.historial_posiciones, <<screen_x, screen_y>>)
             hist == IF Len(largo) > SuavizadoMovimiento THEN Tail(largo) ELSE largo
         IN  [s |-> [s EXCEPT !.historial_posiciones = hist],
              pos |-> <<Suma(hist, 1) \div Len(hist), Suma(hist, 2) \div Len(hist)>>]
    ELSE [s |-> s,
          pos |-> IF s.calibracion_completada
                  THEN IF s.matriz_transformacion = Nula
                       THEN pulgar_punta   \* the except branch of _transformar_coordenadas
                       ELSE transformar_coordenadas(s.matriz_transformacion, pulgar_punta)
                  ELSE pulgar_punta]

\* the tests of _detectar_gestos_una_mano giving Drag for an index pinch
\* whether or not a latch is set
CG_clasificar_sin_pestillo(s, puntos, pinza_indice, pinza_medio) ==
    LET t1 == IF pinza_indice THEN "arrastrar" ELSE "ninguno"
        t2 == IF pinza_medio THEN "menu_contextual" ELSE t1
    IN  IF es_puno_cerrado(puntos) /\ ~s.zoom_mode THEN "click" ELSE t2

\* the three independent tests of _detectar_gestos_una_mano, in the order
\* the code makes them; each overwrites the type the earlier ones set
CG_clasificar(s, puntos, pinza_indice, pinza_medio) ==
    LET t1 == IF pinza_indice
              THEN (IF s.dragging \/ s.clicking THEN "arrastrar" ELSE "click")
              ELSE "ninguno"
        t2 == IF pinza_medio THEN "menu_contextual" ELSE t1
    IN  IF es_puno_cerrado(puntos) /\ ~s.zoom_mode THEN "click" ELSE t2

\* _detectar_gestos_una_mano
CG_detectar_gestos_una_mano(s, puntos) ==
    LET pulgar_punta == P(puntos, 4)
        pinza_indice == MenorQue(calcular_distancia2(pulgar_punta, P(puntos, 8)), distancia_pinza)
        pinza_medio == MenorQue(calcular_distancia2(pulgar_punta, P(puntos, 12)), distancia_pinza)
        c == CG_calcular_posicion_cursor(s, pulgar_punta)
        arrastre == pinza_indice /\ (s.dragging \/ s.clicking)
        s2 == [c.s EXCEPT !.punto_inicial_arrastre =
                  IF pinza_indice
                  THEN (IF arrastre THEN @ ELSE c.pos)
                  ELSE None]
    IN  [s |-> s2,
         info |-> [tipo |-> CG_clasificar(s, puntos, pinza_indice, pinza_medio),
                   posicion |-> c.pos,
                   punto_inicial |-> IF arrastre THEN s.punto_inicial_arrastre ELSE None]]

\* _resetear_zoom
CG_resetear_zoom(s) ==
    [s EXCEPT !.zoom_mode = FALSE, !.haciendo_zoom = FALSE,
              !.distancia_punos_inicial = SinDistancia]

\* the comparison of _procesar_zoom: "zoom_in" when d > 1.5 * d0, "zoom_out"
\* when d < 0.7 * d0 (config factor_zoom_in, factor_zoom_out), on the squares
CG_comparar_zoom(d2, inicial2) ==
    IF 4 * d2 > 9 * inicial2 THEN "zoom_in"
    ELSE IF 100 * d2 < 49 * inicial2 THEN "zoom_out"
    ELSE "ninguno"

\* _procesar_zoom, given the palm centres of the two fists
CG_procesar_zoom(s, punos, info) ==
    LET distancia_actual == calcular_distancia2(punos[1], punos[2])
        inicial == IF ~s.haciendo_zoom THEN distancia_actual ELSE s.distancia_punos_inicial
        s2 == [s EXCEPT !.zoom_mode = TRUE, !.haciendo_zoom = TRUE,
                        !.distancia_punos_inicial = inicial]
        punto_medio == <<(punos[1][1] + punos[2][1]) \div 2, (punos[1][2] + punos[2][2]) \div 2>>
        \* `if self.distancia_punos_inicial:` is false for None and for 0.0
        tipo == IF inicial = SinDistancia \/ inicial = 0 THEN "ninguno"
                ELSE CG_comparar_zoom(distancia_actual, inicial)
    IN  [s |-> s2,
         info |-> IF tipo = "ninguno" THEN info
                  ELSE [info EXCEPT !.tipo = tipo, !.posicion = punto_medio]]

\* _detectar_gestos_dos_manos
CG_detectar_gestos_dos_manos(s, manos, info) ==
    LET punos_detectados == SelectSeq([k \in 1..Len(manos) |-> manos[k]], es_puno_cerrado)
    IN  IF Len(punos_detectados) = 2
        THEN CG_procesar_zoom(s, <<P(punos_detectados[1], 0), P(punos_detectados[2], 0)>>, info)
        ELSE [s |-> CG_resetear_zoom(s), info |-> info]

\* _detectar_gestos
CG_detectar_gestos(s, manos) ==
    IF Len(manos) = 0 THEN [s |-> s, info |-> InfoGesto("ninguno", None)]
    ELSE LET dos == IF Len(manos) = 2
                    THEN CG_detectar_gestos_dos_manos(s, manos, InfoGesto("ninguno", None))
                    ELSE [s |-> s, info |-> InfoGesto("ninguno", None)]
         IN  IF dos.info.tipo \in {"zoom_in", "zoom_out"} THEN dos
             ELSE CG_detectar_gestos_una_mano(dos.s, manos[1])


\* one pyautogui call
Llamada(f, arg) == [f |-> f, arg |-> arg]

\* the branch of _realizar_accion_mouse taken after the cursor was moved:
\* the state after it and the call it makes, if any
CG_accion_gesto(s, tipo) ==
    CASE tipo = "click" ->
           IF ~s.clicking
           THEN [s |-> [s EXCEPT !.clicking = TRUE], llamadas |-> <<Llamada("mouseDown", <<>>)>>]
           ELSE [s |-> s, llamadas |-> <<>>]
      [] tipo = "arrastrar" ->
           [s |-> [s EXCEPT !.dragging = TRUE], llamadas |-> <<>>]
      [] tipo = "menu_contextual" ->
           IF ~s.right_clicking
           THEN [s |-> [s EXCEPT !.right_clicking = TRUE], llamadas |-> <<Llamada("rightClick", <<>>)>>]
           ELSE [s |-> s, llamadas |-> <<>>]
      [] tipo = "zoom_in" -> [s |-> s, llamadas |-> <<Llamada("scroll", <<10>>)>>]
      [] tipo = "zoom_out" -> [s |-> s, llamadas |-> <<Llamada("scroll", <<-10>>)>>]
      [] OTHER ->
           IF s.clicking \/ s.dragging
           THEN [s |-> [s EXCEPT !.clicking = FALSE, !.dragging = FALSE, !.right_clicking = FALSE],
                 llamadas |-> <<Llamada("mouseUp", <<>>)>>]
           ELSE [s |-> [s EXCEPT !.right_clicking = FALSE], llamadas |-> <<>>]

\* _realizar_accion_mouse making the assignments of its branch although
\* pyautogui refused the call
CG_realizar_accion_mouse_asignando(s, info, falla) ==
    IF info.posicion = None THEN [s |-> s, llamadas |-> <<>>, rechazo |-> FALSE]
    ELSE LET x == Max(0, Min(info.posicion[1], screen_width))
             y == Max(0, Min(info.posicion[2], screen_height))
             a == CG_accion_gesto(s, info.tipo)
         IN  IF falla THEN [s |-> a.s, llamadas |-> <<>>, rechazo |-> TRUE]
             ELSE IF <<x, y>> = <<0, 0>> /\ a.llamadas # <<>>
             THEN [s |-> a.s, llamadas |-> <<Llamada("moveTo", <<x, y>>)>>, rechazo |-> TRUE]
             ELSE [s |-> a.s, llamadas |-> <<Llamada("moveTo", <<x, y>>)>> \o a.llamadas,
                   rechazo |-> FALSE]

\* _realizar_accion_mouse.  pyautogui checks the fail-safe before each call:
\* `falla` says the pointer is in the fail-safe corner when the frame's
\* first call is made, and a move to (0, 0) puts it there for the next one.
\* The exception is caught at the end of the method: what was assigned
\* before it stays, the rest is skipped.
CG_realizar_accion_mouse(s, info, falla) ==
    IF info.posicion = None THEN [s |-> s, llamadas |-> <<>>, rechazo |-> FALSE]
    ELSE LET x == Max(0, Min(info.posicion[1], screen_width))
             y == Max(0, Min(info.posicion[2], screen_height))
             a == CG_accion_gesto(s, info.tipo)
         IN  IF falla THEN [s |-> s, llamadas |-> <<>>, rechazo |-> TRUE]
             ELSE IF <<x, y>> = <<0, 0>> /\ a.llamadas # <<>>
             THEN [s |-> s, llamadas |-> <<Llamada("moveTo", <<x, y>>)>>, rechazo |-> TRUE]
             ELSE [s |-> a.s, llamadas |-> <<Llamada("moveTo", <<x, y>>)>> \o a.llamadas,
                   rechazo |-> FALSE]

\* _calibrar_mesa; `vacia` says cv2.findHomography finds no solution and
\* returns an empty matrix (None) with an empty mask: no exception is raised,
\* so the assignments that follow are made
CG_calibrar_mesa(s, puntos_camara, vacia) ==
    [s EXCEPT !.matriz_transformacion =
                  IF vacia THEN Nula ELSE Homografia(puntos_camara, CG_puntos_proyeccion),
              !.calibracion_completada = TRUE]

\* _ejecutar_captura_punto (the countdown blocks the frame loop; no state
\* changes while it runs)
CG_ejecutar_captura_punto(s, indice, vacia) ==
    LET s2 == [s EXCEPT !.puntos_calibracion_camara = Append(@, indice)]
    IN  IF Len(s2.puntos_calibracion_camara) = 4
        THEN CG_calibrar_mesa(s2, s2.puntos_calibracion_camara, vacia)
        ELSE s2

\* _capturar_punto_calibracion: the first hand whose index fingertip is
\* within distancia_calibracion of the current marker is captured
CG_capturar_punto_calibracion(s, manos, vacia) ==
    LET punto_actual == Len(s.puntos_calibracion_camara)
        cerca == {k \in 1..Len(manos) :
                    MenorQue(calcular_distancia2(P(manos[k], 8), CG_marcador(punto_actual + 1)),
                             distancia_calibracion)}
    IN  IF Len(manos) > 0 /\ punto_actual < 4 /\ cerca # {}
        THEN CG_ejecutar_captura_punto(s, P(manos[CHOOSE k \in cerca : \A j \in cerca : k <= j], 8),
                                       vacia)
        ELSE s

\* _procesar_calibracion
CG_procesar_calibracion(s, manos, vacia) ==
    [s |-> CG_capturar_punto_calibracion(s, manos, vacia), info |-> InfoGesto("ninguno", None)]

\* procesar_frame applying the action of the gesture in either mode
CG_procesar_frame_en_todo_modo(s, manos, falla, vacia) ==
    IF s.en_calibracion /\ s.modo = "mesa"
    THEN LET c == CG_procesar_calibracion(s, manos, vacia)
         IN  [s |-> c.s, info |-> c.info, llamadas |-> <<>>, rechazo |-> FALSE,
              ruta |-> IF /\ vacia
                          /\ Len(s.puntos_calibracion_camara) = 3
                          /\ Len(c.s.puntos_calibracion_camara) = 4
                       THEN "solucion_vacia"
                       ELSE "calibracion"]
    ELSE LET d == CG_detectar_gestos(s, manos)
             m == IF d.info.posicion # None
                  THEN CG_realizar_accion_mouse(d.s, d.info, falla)
                  ELSE [s |-> d.s, llamadas |-> <<>>, rechazo |-> FALSE]
         IN  [s |-> m.s, info |-> d.info, llamadas |-> m.llamadas, rechazo |-> m.rechazo,
              ruta |-> "gestos"]

\* procesar_frame; the path is "solucion_vacia" when the frame captured the
\* fourth point and the solve over the four points gave no matrix
CG_procesar_frame(s, manos, falla, vacia) ==
    IF s.en_calibracion /\ s.modo = "mesa"
    THEN LET c == CG_procesar_calibracion(s, manos, vacia)
         IN  [s |-> c.s, info |-> c.info, llamadas |-> <<>>, rechazo |-> FALSE,
              ruta |-> IF /\ vacia
                          /\ Len(s.puntos_calibracion_camara) = 3
                          /\ Len(c.s.puntos_calibracion_camara) = 4
                       THEN "solucion_vacia"
                       ELSE "calibracion"]
    ELSE LET d == CG_detectar_gestos(s, manos)
             m == IF d.s.modo = "pantalla" /\ d.info.posicion # None
                  THEN CG_realizar_accion_mouse(d.s, d.info, falla)
                  ELSE [s |-> d.s, llamadas |-> <<>>, rechazo |-> FALSE]
         IN  [s |-> m.s, info |-> d.info, llamadas |-> m.llamadas, rechazo |-> m.rechazo,
              ruta |-> "gestos"]

\* _reiniciar_estados
CG_reiniciar_estados(s) ==
    [s EXCEPT !.clicking = FALSE, !.right_clicking = FALSE, !.dragging = FALSE,
              !.punto_inicial_arrastre = None, !.zoom_mode = FALSE,
              !.haciendo_zoom = FALSE, !.historial_posiciones = <<>>]

\* iniciar_calibracion
CG_iniciar_calibracion(s) ==
    [s EXCEPT !.en_calibracion = TRUE, !.puntos_calibracion_camara = <<>>]

\* cambiar_modo
CG_cambiar_modo(s, nuevo_modo) ==
    IF s.modo # nuevo_modo
    THEN LET s2 == CG_reiniciar_estados([s EXCEPT !.modo = nuevo_modo])
         IN  IF nuevo_modo = "mesa" /\ ~s2.calibracion_completada
             THEN CG_iniciar_calibracion(s2)
             ELSE s2
    ELSE s


(***************************************************************************)
(* DetectorGestos (src/detectorGestos.py)                                  *)
(*                                                                         *)
(* Time is counted in ticks of 100 ms.  The clock is read as the fixed     *)
(* value Ahora and the stored timestamps are moved back as time passes     *)
(* (DG_pasar_tiempo): the code reads a timestamp only in `now - t`         *)
(* compared with a window, so a timestamp older than its window is kept    *)
(* at the window's edge.                                                   *)
(***************************************************************************)
Ahora == 30
doble_click_ventana == 5
tiempo_requerido_calibracion == 30
cooldown_zoom_ventana == 1
tolerancia_calibracion == 50
ancho_frame == 640
alto_frame == 480

\* the time between two frames, in ticks
Pasos == {1, 5}

\* the time between two frames of a calibration session, in ticks
PasosCalibracion == {15, 30}

\* __init__; `modo` is the --modo argument and `archivo` says whether
\* calibracion_matriz.npy exists (read only in mode mesa)
DG_init(modo, archivo) ==
    [modo |-> modo,
     arrastrando |-> FALSE,
     ultimo_click_tiempo |-> 0,
     zoom_activo |-> FALSE,
     distancia_punos_anterior |-> 0,
     cooldown_zoom |-> 0,
     historial_x |-> <<>>,
     historial_y |-> <<>>,
     matriz_transformacion |-> IF modo = "mesa" /\ archivo THEN MatrizArchivo ELSE Eye,
     calibrando |-> FALSE,
     puntos_camara |-> <<>>,
     puntos_proyeccion |-> <<>>,
     esquina_actual |-> 0,
     tiempo_en_punto |-> 0,
     punto_calibracion_activo |-> FALSE]

\* dt ticks pass: every stored timestamp moves back by dt
DG_pasar_tiempo(s, dt) ==
    [s EXCEPT !.ultimo_click_tiempo = Max(Ahora - doble_click_ventana, @ - dt),
              !.cooldown_zoom = Max(Ahora - cooldown_zoom_ventana - 1, @ - dt),
              !.tiempo_en_punto = Max(0, @ - dt)]

DG_esquinas_proyeccion ==
    <<<<50, 50>>, <<screen_width - 50, 50>>,
      <<screen_width - 50, screen_height - 50>>, <<50, screen_height - 50>>>>

\* _finalizar_calibracion
DG_finalizar_calibracion(s) ==
    IF Len(s.puntos_camara) >= 4 /\ Len(s.puntos_proyeccion) >= 4
    THEN [s EXCEPT !.matriz_transformacion = Homografia(s.puntos_camara, s.puntos_proyeccion),
                   !.calibrando = FALSE]
    ELSE s

\* _procesar_calibracion recording every captured point twice
DG_procesar_calibracion_doble(s, puntos) ==
    IF ~s.calibrando \/ s.esquina_actual >= 4 THEN s
    ELSE LET dedo == P(puntos, 8)
             esquina_objetivo == DG_esquinas_proyeccion[s.esquina_actual + 1]
         IN  IF MenorQue(calcular_distancia2(dedo, esquina_objetivo), tolerancia_calibracion)
             THEN LET s2 == IF ~s.punto_calibracion_activo
                            THEN [s EXCEPT !.punto_calibracion_activo = TRUE,
                                           !.tiempo_en_punto = Ahora]
                            ELSE s
                      tiempo_transcurrido == Ahora - s2.tiempo_en_punto
                  IN  IF tiempo_transcurrido >= tiempo_requerido_calibracion
                      THEN LET s3 == [s2 EXCEPT !.puntos_camara = Append(Append(@, dedo), dedo),
                                                !.puntos_proyeccion =
                                                    Append(Append(@, esquina_objetivo), esquina_objetivo),
                                                !.esquina_actual = @ + 1,
                                                !.punto_calibracion_activo = FALSE]
                           IN  IF s3.esquina_actual >= 4 THEN DG_finalizar_calibracion(s3) ELSE s3
                      ELSE s2
             ELSE IF s.punto_calibracion_activo
                  THEN [s EXCEPT !.punto_calibracion_activo = FALSE, !.tiempo_en_punto = 0]
                  ELSE s

\* _procesar_calibracion
DG_procesar_calibracion(s, puntos) ==
    IF ~s.calibrando \/ s.esquina_actual >= 4 THEN s
    ELSE LET dedo == P(puntos, 8)
             esquina_objetivo == DG_esquinas_proyeccion[s.esquina_actual + 1]
         IN  IF MenorQue(calcular_distancia2(dedo, esquina_objetivo), tolerancia_calibracion)
             THEN LET s2 == IF ~s.punto_calibracion_activo
                            THEN [s EXCEPT !.punto_calibracion_activo = TRUE,
                                           !.tiempo_en_punto = Ahora]
                            ELSE s
                      tiempo_transcurrido == Ahora - s2.tiempo_en_punto
                  IN  IF tiempo_transcurrido >= tiempo_requerido_calibracion
                      THEN LET s3 == [s2 EXCEPT !.puntos_camara = Append(@, dedo),
                                                !.puntos_proyeccion = Append(@, esquina_objetivo),
                                                !.esquina_actual = @ + 1,
                                                !.punto_calibracion_activo = FALSE]
                           IN  IF s3.esquina_actual >= 4 THEN DG_finalizar_calibracion(s3) ELSE s3
                      ELSE s2
             ELSE IF s.punto_calibracion_activo
                  THEN [s EXCEPT !.punto_calibracion_activo = FALSE, !.tiempo_en_punto = 0]
                  ELSE s

\* _suavizar_movimiento dropping the oldest point one push too late
DG_suavizar_movimiento_tardio(s, x, y) ==
    LET lx == Append(s.historial_x, x)
        ly == Append(s.historial_y, y)
        hx == IF Len(lx) > SuavizadoMovimiento + 1 THEN Tail(lx) ELSE lx
        hy == IF Len(ly) > SuavizadoMovimiento + 1 THEN Tail(ly) ELSE ly
    IN  [s |-> [s EXCEPT !.historial_x = hx, !.historial_y = hy],
         pos |-> <<Suma([k \in 1..Len(hx) |-> <<hx[k]>>], 1) \div Len(hx),
                   Suma([k \in 1..Len(hy) |-> <<hy[k]>>], 1) \div Len(hy)>>]

\* _suavizar_movimiento: the state after it and the smoothed point
DG_suavizar_movimiento(s, x, y) ==
    LET lx == Append(s.historial_x, x)
        ly == Append(s.historial_y, y)
        hx == IF Len(lx) > SuavizadoMovimiento THEN Tail(lx) ELSE lx
        hy == IF Len(ly) > SuavizadoMovimiento THEN Tail(ly) ELSE ly
    IN  [s |-> [s EXCEPT !.historial_x = hx, !.historial_y = hy],
         pos |-> <<Suma([k \in 1..Len(hx) |-> <<hx[k]>>], 1) \div Len(hx),
                   Suma([k \in 1..Len(hy) |-> <<hy[k]>>], 1) \div Len(hy)>>]

\* the double-click test with the window's edge counted inside the window
DG_click_o_doble_inclusive(s) ==
    IF Ahora - s.ultimo_click_tiempo <= doble_click_ventana
    THEN "doble_click"
    ELSE "click_izquierdo"

\* the test of _detectar_gestos_una_mano on an index pinch: every branch
\* of the code returns DOBLE_CLICK inside the window and CLICK_IZQUIERDO
\* outside it
DG_click_o_doble(s) ==
    IF Ahora - s.ultimo_click_tiempo < doble_click_ventana
    THEN "doble_click"
    ELSE "click_izquierdo"

\* _detectar_gestos_una_mano without its final else branch: a hand that
\* pinches nothing gives no event
DG_detectar_gestos_una_mano_sin_cursor(s, puntos) ==
    IF s.calibrando
    THEN [s |-> DG_procesar_calibracion(s, puntos), info |-> InfoGesto("ninguno", None)]
    ELSE LET pulgar_tip == P(puntos, 4)
             pinza_indice == MenorQue(calcular_distancia2(pulgar_tip, P(puntos, 8)), distancia_pinza)
             pinza_medio == MenorQue(calcular_distancia2(pulgar_tip, P(puntos, 12)), distancia_pinza)
         IN  IF pinza_indice
             THEN [s |-> s, info |-> InfoGesto(DG_click_o_doble(s), pulgar_tip)]
             ELSE IF pinza_medio
             THEN [s |-> s, info |-> InfoGesto("click_derecho", pulgar_tip)]
             ELSE [s |-> s, info |-> InfoGesto("ninguno", None)]

\* _detectar_gestos_una_mano
DG_detectar_gestos_una_mano(s, puntos) ==
    IF s.calibrando
    THEN [s |-> DG_procesar_calibracion(s, puntos), info |-> InfoGesto("ninguno", None)]
    ELSE LET pulgar_tip == P(puntos, 4)
             pinza_indice == MenorQue(calcular_distancia2(pulgar_tip, P(puntos, 8)), distancia_pinza)
             pinza_medio == MenorQue(calcular_distancia2(pulgar_tip, P(puntos, 12)), distancia_pinza)
         IN  IF pinza_indice
             THEN [s |-> s, info |-> InfoGesto(DG_click_o_doble(s), pulgar_tip)]
             ELSE IF pinza_medio
             THEN [s |-> s, info |-> InfoGesto("click_derecho", pulgar_tip)]
             ELSE LET m == DG_suavizar_movimiento(s, pulgar_tip[1], pulgar_tip[2])
                  IN  [s |-> m.s, info |-> InfoGesto("cursor", m.pos)]

\* the comparison of _detectar_gestos_dos_manos: d > 1.1 * anterior,
\* d < 0.9 * anterior, on the squares
DG_comparar_zoom(d2, anterior2) ==
    IF 100 * d2 > 121 * anterior2 THEN "zoom_in"
    ELSE IF 100 * d2 < 81 * anterior2 THEN "zoom_out"
    ELSE "ninguno"

\* _detectar_gestos_dos_manos: the wrists of the two hands, whatever their
\* pose
DG_detectar_gestos_dos_manos(s, manos) ==
    LET pos1 == P(manos[1], 0)
        pos2 == P(manos[2], 0)
        distancia_actual == calcular_distancia2(pos1, pos2)
        tipo == IF s.zoom_activo
                THEN DG_comparar_zoom(distancia_actual, s.distancia_punos_anterior)
                ELSE "ninguno"
    IN  IF tipo # "ninguno"
        THEN [s |-> s,
              info |-> InfoGesto(tipo, <<(pos1[1] + pos2[1]) \div 2, (pos1[2] + pos2[2]) \div 2>>)]
        ELSE [s |-> [s EXCEPT !.zoom_activo = TRUE, !.distancia_punos_anterior = distancia_actual],
              info |-> InfoGesto("ninguno", None)]


\* _mover_cursor
DG_mover_cursor(s, posicion, falla) ==
    LET destino == IF s.modo = "mesa" /\ Len(s.puntos_camara) >= 4
                   THEN transformar_coordenadas(s.matriz_transformacion, posicion)
                   ELSE <<(posicion[1] * screen_width) \div ancho_frame,
                          (posicion[2] * screen_height) \div alto_frame>>
    IN  IF falla THEN [s |-> s, llamadas |-> <<>>, rechazo |-> TRUE]
        ELSE [s |-> s, llamadas |-> <<Llamada("moveTo", destino)>>, rechazo |-> FALSE]

\* _realizar_click_izquierdo
DG_realizar_click_izquierdo(s, falla) ==
    IF falla THEN [s |-> s, llamadas |-> <<>>, rechazo |-> TRUE]
    ELSE [s |-> [s EXCEPT !.ultimo_click_tiempo = Ahora, !.arrastrando = TRUE],
          llamadas |-> <<Llamada("click", <<>>)>>, rechazo |-> FALSE]

\* _realizar_doble_click
DG_realizar_doble_click(s, falla) ==
    IF falla THEN [s |-> s, llamadas |-> <<>>, rechazo |-> TRUE]
    ELSE [s |-> s, llamadas |-> <<Llamada("doubleClick", <<>>)>>, rechazo |-> FALSE]

\* _realizar_click_derecho
DG_realizar_click_derecho(s, falla) ==
    IF falla THEN [s |-> s, llamadas |-> <<>>, rechazo |-> TRUE]
    ELSE [s |-> s, llamadas |-> <<Llamada("rightClick", <<>>)>>, rechazo |-> FALSE]

\* _realizar_zoom; `acercar` is factor > 1.0
DG_realizar_zoom(s, acercar, falla) ==
    IF Ahora - s.cooldown_zoom > cooldown_zoom_ventana
    THEN IF falla THEN [s |-> s, llamadas |-> <<>>, rechazo |-> TRUE]
         ELSE [s |-> [s EXCEPT !.cooldown_zoom = Ahora],
               llamadas |-> <<Llamada("scroll", <<IF acercar THEN 3 ELSE -3>>)>>,
               rechazo |-> FALSE]
    ELSE [s |-> s, llamadas |-> <<>>, rechazo |-> FALSE]

\* _ejecutar_accion
DG_ejecutar_accion(s, info, falla) ==
    CASE info.tipo = "cursor" /\ info.posicion # None -> DG_mover_cursor(s, info.posicion, falla)
      [] info.tipo = "click_izquierdo" -> DG_realizar_click_izquierdo(s, falla)
      [] info.tipo = "doble_click" -> DG_realizar_doble_click(s, falla)
      [] info.tipo = "click_derecho" -> DG_realizar_click_derecho(s, falla)
      [] info.tipo = "zoom_in" -> DG_realizar_zoom(s, TRUE, falla)
      [] info.tipo = "zoom_out" -> DG_realizar_zoom(s, FALSE, falla)
      [] OTHER -> [s |-> s, llamadas |-> <<>>, rechazo |-> FALSE]

\* the detection of the frame indexes a landmark that a hand lacks:
\* landmark[8] in _procesar_calibracion, puntos[4], puntos[8], puntos[12] in
\* _detectar_gestos_una_mano, landmark[0] in _detectar_gestos_dos_manos
DG_IndexError(s, manos) ==
    \/ Len(manos) = 1 /\ s.calibrando /\ s.esquina_actual < 4 /\ Len(manos[1]) < 9
    \/ Len(manos) = 1 /\ ~s.calibrando /\ Len(manos[1]) < 13
    \/ Len(manos) = 2 /\ (Len(manos[1]) < 1 \/ Len(manos[2]) < 1)

\* procesar_frame, which has no try: an exception raised in it leaves it
\* (path "excepcion") with the assignments made so far, and nothing is
\* returned.  `dibuja` says whether mp_drawing.draw_landmarks, called after
\* the detection, draws a hand with fewer than 21 landmarks (it raises
\* otherwise)
DG_procesar_frame(s, manos, falla, dibuja) ==
    IF DG_IndexError(s, manos)
    THEN [s |-> s, info |-> InfoGesto("ninguno", None), llamadas |-> <<>>, rechazo |-> FALSE,
          ruta |-> "excepcion"]
    ELSE
    LET d == IF Len(manos) = 1 THEN DG_detectar_gestos_una_mano(s, manos[1])
             ELSE IF Len(manos) = 2 THEN DG_detectar_gestos_dos_manos(s, manos)
             ELSE [s |-> s, info |-> InfoGesto("ninguno", None)]
        e == DG_ejecutar_accion(d.s, d.info, falla)
    IN  IF ~dibuja /\ \E k \in 1..Len(manos) : Len(manos[k]) < 21
        THEN [s |-> d.s, info |-> InfoGesto("ninguno", None), llamadas |-> <<>>,
              rechazo |-> FALSE, ruta |-> "excepcion"]
        ELSE [s |-> e.s, info |-> d.info, llamadas |-> e.llamadas, rechazo |-> e.rechazo,
              ruta |-> IF Len(manos) = 1 /\ s.calibrando THEN "calibracion" ELSE "gestos"]

\* _cambiar_modo
DG_cambiar_modo(s) ==
    IF s.modo = "pantalla"
    THEN [s EXCEPT !.modo = "mesa"]
    ELSE [s EXCEPT !.modo = "pantalla", !.puntos_camara = <<>>, !.puntos_proyeccion = <<>>]

\* _iniciar_calibracion going on from the corner the last session reached
DG_iniciar_calibracion_sin_esquina(s) ==
    IF s.modo = "mesa"
    THEN [s EXCEPT !.calibrando = TRUE, !.puntos_camara = <<>>, !.puntos_proyeccion = <<>>,
                   !.tiempo_en_punto = 0, !.punto_calibracion_activo = FALSE]
    ELSE s

\* _iniciar_calibracion
DG_iniciar_calibracion(s) ==
    IF s.modo = "mesa"
    THEN [s EXCEPT !.calibrando = TRUE, !.puntos_camara = <<>>, !.puntos_proyeccion = <<>>,
                   !.esquina_actual = 0, !.tiempo_en_punto = 0,
                   !.punto_calibracion_activo = FALSE]
    ELSE s

\* manejar_teclas, key 'r'
DG_reset(s) ==
    IF s.modo = "mesa"
    THEN [s EXCEPT !.puntos_camara = <<>>, !.puntos_proyeccion = <<>>,
                   !.matriz_transformacion = Eye]
    ELSE s

(***************************************************************************)
(* The state machine                                                       *)
(***************************************************************************)
\* the observation variables before the first operation
SinOperacion ==
    /\ info_gesto = InfoGesto("ninguno", None)
    /\ acciones = <<>>
    /\ rechazo = FALSE
    /\ entrada = <<>>
    /\ ruta = "ninguna"
    /\ op = "init"
    /\ desde_click = doble_click_ventana
    /\ transcurrido = doble_click_ventana
    /\ distancia = SinDistancia
    /\ linea_base = SinDistancia
    /\ permanencia = None
    /\ mapeo = None

\* the observation variables after the key handler `tecla`: no frame was
\* classified and no pyautogui call made
Tecla(tecla) ==
    /\ info_gesto' = InfoGesto("ninguno", None)
    /\ acciones' = <<>>
    /\ rechazo' = FALSE
    /\ entrada' = <<>>
    /\ ruta' = "ninguna"
    /\ op' = tecla
    /\ transcurrido' = desde_click
    /\ distancia' = SinDistancia
    /\ UNCHANGED <<desde_click, linea_base, permanencia, mapeo>>

\* both hands of a two-hand frame are closed fists
DosPunos(manos) ==
    Len(manos) = 2 /\ es_puno_cerrado(manos[1]) /\ es_puno_cerrado(manos[2])

\* the squared distance between the palm centres of a two-hand frame
DistanciaDe(manos) ==
    IF Len(manos) = 2 THEN calcular_distancia2(P(manos[1], 0), P(manos[2], 0))
    ELSE SinDistancia

\* the run of two-fist frames the frame `manos` continues, starts or ends
Sesion(manos) ==
    /\ distancia' = DistanciaDe(manos)
    /\ linea_base' = IF DosPunos(manos)
                     THEN (IF linea_base = SinDistancia THEN DistanciaDe(manos) ELSE linea_base)
                     ELSE SinDistancia

\* the click clock after a frame that came dt ticks after the last one and
\* made the calls `llamadas`
Reloj(dt, llamadas) ==
    /\ transcurrido' = Min(doble_click_ventana, desde_click + dt)
    /\ desde_click' = IF \E k \in 1..Len(llamadas) : llamadas[k].f = "click"
                      THEN 0
                      ELSE Min(doble_click_ventana, desde_click + dt)

\* SistemaControl.__init__ builds a ControladorGestos
InitCG ==
    /\ impl = "ControladorGestos"
    /\ \E archivo \in BOOLEAN : cg = CG_init(archivo)
    /\ dg = DG_init("pantalla", FALSE)
    /\ SinOperacion

\* ejecutar_detector builds a DetectorGestos in the mode of --modo
InitDG ==
    /\ impl = "DetectorGestos"
    /\ cg = CG_init(FALSE)
    /\ \E archivo \in BOOLEAN, modo \in {"pantalla", "mesa"} : dg = DG_init(modo, archivo)
    /\ SinOperacion

\* one camera frame goes through ControladorGestos.procesar_frame; the
\* solver is called only by the frame that captures the fourth point
CG_Frame ==
    /\ impl = "ControladorGestos"
    /\ \E frame \in (IF cg.modo = "mesa" THEN FramesMesa ELSE Frames),
          falla \in BOOLEAN, vacia \in BOOLEAN :
          /\ vacia => /\ cg.en_calibracion /\ cg.modo = "mesa"
                      /\ Len(cg.puntos_calibracion_camara) = 3
          /\ \E r \in {CG_procesar_frame(cg, frame.manos, falla, vacia)} :
              /\ cg' = r.s
              /\ info_gesto' = r.info
              /\ acciones' = r.llamadas
              /\ rechazo' = r.rechazo
              /\ entrada' = frame.poses
              /\ ruta' = r.ruta
              /\ Sesion(frame.manos)
    /\ op' = "procesar_frame"
    /\ UNCHANGED <<impl, dg, desde_click, transcurrido, permanencia, mapeo>>

\* key 'm' of SistemaControl._procesar_teclas
CG_TeclaM ==
    /\ impl = "ControladorGestos"
    /\ cg' = CG_cambiar_modo(cg, IF cg.modo = "pantalla" THEN "mesa" ELSE "pantalla")
    /\ Tecla("cambiar_modo")
    /\ UNCHANGED <<impl, dg>>

\* key 'c' of SistemaControl._procesar_teclas
CG_TeclaC ==
    /\ impl = "ControladorGestos"
    /\ cg.modo = "mesa"
    /\ cg' = CG_iniciar_calibracion(cg)
    /\ Tecla("iniciar_calibracion")
    /\ UNCHANGED <<impl, dg>>

\* the frame `manos` shows an index fingertip within the tolerance of the
\* corner the calibration of DetectorGestos is waiting for
EnEsquina(s, manos) ==
    /\ s.calibrando
    /\ s.esquina_actual < 4
    /\ \E k \in 1..Len(manos) :
          /\ Len(manos[k]) > 8
          /\ MenorQue(calcular_distancia2(P(manos[k], 8), DG_esquinas_proyeccion[s.esquina_actual + 1]),
                      tolerancia_calibracion)

\* the stay at a corner after the frame `manos` that came dt ticks after the
\* last one: it goes on when the last frame showed a fingertip at the same
\* corner, it begins when this frame is the first to show one there, and
\* there is none when this frame shows no fingertip there
Permanencia(manos, dt) ==
    permanencia' =
        IF EnEsquina(dg, manos)
        THEN IF permanencia # None /\ permanencia[1] = dg.esquina_actual
             THEN <<dg.esquina_actual, Min(tiempo_requerido_calibracion, permanencia[2] + dt)>>
             ELSE <<dg.esquina_actual, 0>>
        ELSE None

\* the frame loop of SistemaControlGestos.ejecutar runs until an exception
\* leaves it
EnMarcha == ruta # "excepcion"

\* the camera frame `frame` goes through DetectorGestos.procesar_frame, dt
\* ticks after the previous one
DG_Paso(frame, falla, dt, dibuja) ==
    \E r \in {DG_procesar_frame(DG_pasar_tiempo(dg, dt), frame.manos, falla, dibuja)} :
        /\ dg' = r.s
        /\ info_gesto' = r.info
        /\ acciones' = r.llamadas
        /\ rechazo' = r.rechazo
        /\ entrada' = frame.poses
        /\ ruta' = r.ruta
        /\ Sesion(frame.manos)
        /\ Reloj(dt, r.llamadas)
        /\ Permanencia(frame.manos, dt)
        /\ op' = "procesar_frame"
        /\ UNCHANGED <<impl, cg, mapeo>>

\* a frame of gesture operation
DG_Frame ==
    /\ impl = "DetectorGestos"
    /\ EnMarcha
    /\ \E frame \in FramesDG, falla \in BOOLEAN, dt \in Pasos :
          DG_Paso(frame, falla, dt, TRUE)

\* a frame in which the hand tracker gives a hand with fewer than 21 landmarks
DG_FrameIncompleto ==
    /\ impl = "DetectorGestos"
    /\ EnMarcha
    /\ \E frame \in FramesIncompletos, falla \in BOOLEAN, dt \in Pasos, dibuja \in BOOLEAN :
          DG_Paso(frame, falla, dt, dibuja)

\* a frame of a calibration session
DG_FrameCalibracion ==
    /\ impl = "DetectorGestos"
    /\ EnMarcha
    /\ \E frame \in FramesCalibracionDG, falla \in BOOLEAN, dt \in PasosCalibracion :
          DG_Paso(frame, falla, dt, TRUE)

\* keys 'm', 'b' and 'r' of DetectorGestos.manejar_teclas
DG_TeclaM ==
    /\ impl = "DetectorGestos"
    /\ EnMarcha
    /\ dg' = DG_cambiar_modo(dg)
    /\ Tecla("cambiar_modo")
    /\ UNCHANGED <<impl, cg>>

DG_TeclaB ==
    /\ impl = "DetectorGestos"
    /\ EnMarcha
    /\ dg' = DG_iniciar_calibracion(dg)
    /\ Tecla("iniciar_calibracion")
    /\ UNCHANGED <<impl, cg>>

DG_TeclaR ==
    /\ impl = "DetectorGestos"
    /\ EnMarcha
    /\ dg' = DG_reset(dg)
    /\ Tecla("reset")
    /\ UNCHANGED <<impl, cg>>

NextCG ==
    \/ CG_Frame
    \/ CG_TeclaM
    \/ CG_TeclaC

NextDG ==
    \/ DG_Frame
    \/ DG_TeclaM
    \/ DG_TeclaB
    \/ DG_TeclaR

SpecCG == InitCG /\ [][NextCG]_vars

SpecDG == InitDG /\ [][NextDG]_vars

\* the calibration sessions of both classes
InitCalibracion == InitCG \/ InitDG

NextCalibracion ==
    \/ CG_Frame
    \/ CG_TeclaM
    \/ CG_TeclaC
    \/ DG_FrameCalibracion
    \/ DG_TeclaM
    \/ DG_TeclaB
    \/ DG_TeclaR

SpecCalibracion == InitCalibracion /\ [][NextCalibracion]_vars

\* the calibration sessions of DetectorGestos with every fingertip inside the
\* camera frame: _procesar_calibracion takes x_dedo = int(x * ancho) and
\* y_dedo = int(y * altura) from a landmark of the image
CuadroDeCamara == (0..ancho) \X (0..altura)

\* the fingertips of the frames of such a session: at the first corner, at
\* the three places of the frame nearest to the other corners, and in the
\* middle of the frame
PuntasEnCuadro ==
    {<<Min(DG_esquinas_proyeccion[i][1], ancho), Min(DG_esquinas_proyeccion[i][2], altura)>> :
        i \in 1..4}
    \cup {<<ancho \div 2, altura \div 2>>}

\* the open hand whose index fingertip is at `punta`
FramesEnCuadro ==
    {Entrada(<<[pose |-> "abierta", en |-> <<p[1] + 30, p[2] + 120>>]>>) : p \in PuntasEnCuadro}

DG_FrameEnCuadro ==
    /\ impl = "DetectorGestos"
    /\ EnMarcha
    /\ \E frame \in FramesEnCuadro, falla \in BOOLEAN, dt \in PasosCalibracion :
          DG_Paso(frame, falla, dt, TRUE)

NextEnCuadro ==
    \/ DG_FrameEnCuadro
    \/ DG_TeclaM
    \/ DG_TeclaB
    \/ DG_TeclaR

SpecEnCuadro == InitDG /\ [][NextEnCuadro]_vars

\* DetectorGestos with a hand tracker that may give incomplete hands
NextIncompleta ==
    \/ DG_Frame
    \/ DG_FrameIncompleto
    \/ DG_TeclaM
    \/ DG_TeclaB
    \/ DG_TeclaR

SpecIncompleta == InitDG /\ [][NextIncompleta]_vars

\* a two-fist session of DetectorGestos in which the second fist moves away
\* from the first a little at a time: each place is less than 1.1 times as
\* far from PrimerLugar as the one before, and the last is more than 1.5
\* times as far as the first
LugaresZoom ==
    {<<170, 240>>, <<176, 240>>, <<183, 240>>, <<191, 240>>, <<200, 240>>, <<209, 240>>}

FramesZoom ==
    {Entrada(<<[pose |-> "puno", en |-> PrimerLugar], [pose |-> "puno", en |-> b]>>) :
        b \in LugaresZoom}

DG_FrameZoom ==
    /\ impl = "DetectorGestos"
    /\ EnMarcha
    /\ \E frame \in FramesZoom, falla \in BOOLEAN, dt \in Pasos :
          DG_Paso(frame, falla, dt, TRUE)

NextZoom == DG_FrameZoom

SpecZoom == InitDG /\ [][NextZoom]_vars

\* _transformar_coordenadas on its own, for the matrices with coefficients
\* in Coeficientes and the points with coordinates up to MaxCoordenada
MaxCoordenada == 3

Coeficientes == {-1, 0, 1}

Filas == {<<a, b, c>> : a \in Coeficientes, b \in Coeficientes, c \in Coeficientes}

Matrices == {[num |-> <<f1, f2, f3>>, den |-> 1] : f1 \in Filas, f2 \in Filas, f3 \in Filas}

Puntos == (0..MaxCoordenada) \X (0..MaxCoordenada)

\* the arguments of the call
InitMapeo ==
    /\ impl = "transformar_coordenadas"
    /\ cg = CG_init(FALSE)
    /\ dg = DG_init("pantalla", FALSE)
    /\ info_gesto = InfoGesto("ninguno", None)
    /\ acciones = <<>>
    /\ rechazo = FALSE
    /\ entrada = <<>>
    /\ ruta = "ninguna"
    /\ op = "init"
    /\ desde_click = doble_click_ventana
    /\ transcurrido = doble_click_ventana
    /\ distancia = SinDistancia
    /\ linea_base = SinDistancia
    /\ permanencia = None
    /\ \E matriz \in Matrices, punto \in Puntos :
          mapeo = [matriz |-> matriz, punto |-> punto, resultado |-> None]

\* the call
Transformar ==
    /\ impl = "transformar_coordenadas"
    /\ op = "init"
    /\ mapeo' = [mapeo EXCEPT !.resultado = transformar_coordenadas(mapeo.matriz, mapeo.punto)]
    /\ op' = "transformar_coordenadas"
    /\ UNCHANGED <<impl, cg, dg, info_gesto, acciones, rechazo, entrada, ruta,
                   desde_click, transcurrido, distancia, linea_base, permanencia>>

NextMapeo == Transformar

SpecMapeo == InitMapeo /\ [][NextMapeo]_vars

\* the observation variables but mapeo as they are before the first operation
EnReposo ==
    /\ info_gesto = InfoGesto("ninguno", None)
    /\ acciones = <<>>
    /\ rechazo = FALSE
    /\ entrada = <<>>
    /\ ruta = "ninguna"
    /\ op = "init"
    /\ desde_click = doble_click_ventana
    /\ transcurrido = doble_click_ventana
    /\ distancia = SinDistancia
    /\ linea_base = SinDistancia
    /\ permanencia = None

\* the variables a call of a function on its own leaves alone
SinCambios ==
    UNCHANGED <<impl, cg, dg, info_gesto, acciones, rechazo, entrada, ruta,
                desde_click, transcurrido, distancia, linea_base, permanencia>>

\* the solve that ends a calibration and the mapping of the captured points,
\* on their own.  The captured points lie within the tolerance of four
\* markers that are the corners of a rectangle, so they are the corners of a
\* convex quadrilateral in the order of the markers; the model takes the
\* quadrilaterals of that kind with coordinates up to MaxCoordenada
Convexo(q) ==
    /\ Det3(q[1], q[2], q[3]) > 0
    /\ Det3(q[2], q[3], q[4]) > 0
    /\ Det3(q[3], q[4], q[1]) > 0
    /\ Det3(q[4], q[1], q[2]) > 0

Cuadrilateros ==
    {q \in Puntos \X Puntos \X Puntos \X Puntos : Convexo(q)}

\* the captured points and the corners they are paired with: those of
\* ControladorGestos or those of DetectorGestos
InitHomografia ==
    /\ impl = "calibrar_mesa"
    /\ cg = CG_init(FALSE)
    /\ dg = DG_init("pantalla", FALSE)
    /\ EnReposo
    /\ \E origen \in Cuadrilateros, destino \in {CG_puntos_proyeccion, DG_esquinas_proyeccion} :
          mapeo = [origen |-> origen, destino |-> destino, matriz |-> None,
                   indice |-> 0, resultado |-> None]

\* _calibrar_mesa / _finalizar_calibracion
Calibrar ==
    /\ impl = "calibrar_mesa"
    /\ op = "init"
    /\ mapeo' = [mapeo EXCEPT !.matriz = HomografiaGeneral(mapeo.origen, mapeo.destino)]
    /\ op' = "calibrar_mesa"
    /\ SinCambios

\* _transformar_coordenadas of one of the captured points
TransformarCapturado ==
    /\ impl = "calibrar_mesa"
    /\ op = "calibrar_mesa"
    /\ \E i \in 1..4 :
          mapeo' = [mapeo EXCEPT !.indice = i,
                                 !.resultado = transformar_coordenadas(mapeo.matriz, mapeo.origen[i])]
    /\ op' = "transformar_coordenadas"
    /\ SinCambios

NextHomografia ==
    \/ Calibrar
    \/ TransformarCapturado

SpecHomografia == InitHomografia /\ [][NextHomografia]_vars

\* _es_puño_cerrado on its own.  Each of the four fingers is stretched (its
\* tip above its base and far from the palm), folded sideways (below its
\* base, far from the palm), drawn in (above its base, near the palm) or
\* curled (below its base, near the palm)
Dedos == {"estirado", "doblado", "recogido", "enroscado"}

PuntaDe(dedo) ==
    CASE dedo = "estirado" -> <<0, -125>>
      [] dedo = "doblado" -> <<-150, -45>>
      [] dedo = "recogido" -> <<0, -100>>
      [] OTHER -> <<0, -45>>

\* the open hand at PrimerLugar with its four fingers as `dedos` says
ManoCon(dedos) ==
    [k \in 1..21 |->
        IF \E j \in 1..4 : punta_dedos[j] = k - 1
        THEN LET j == CHOOSE j \in 1..4 : punta_dedos[j] = k - 1
             IN  <<PrimerLugar[1] + PuntaDe(dedos[j])[1], PrimerLugar[2] + PuntaDe(dedos[j])[2]>>
        ELSE Mano("abierta", PrimerLugar)[k]]

\* the object in the middle of a click, of a zoom session, or idle
EstadosCG ==
    {CG_init(FALSE),
     [CG_init(FALSE) EXCEPT !.clicking = TRUE, !.punto_inicial_arrastre = <<0, 0>>],
     [CG_init(FALSE) EXCEPT !.zoom_mode = TRUE, !.haciendo_zoom = TRUE,
                            !.distancia_punos_inicial = 4900]}

InitPuno ==
    /\ impl = "es_puno_cerrado"
    /\ cg \in EstadosCG
    /\ dg = DG_init("pantalla", FALSE)
    /\ EnReposo
    /\ \E dedos \in [1..4 -> Dedos] :
          mapeo = [dedos |-> dedos, puntos |-> ManoCon(dedos), resultado |-> None]

\* the call: it assigns no field of the object
EsPunoCerrado ==
    /\ impl = "es_puno_cerrado"
    /\ op = "init"
    /\ mapeo' = [mapeo EXCEPT !.resultado = es_puno_cerrado(mapeo.puntos)]
    /\ op' = "es_puno_cerrado"
    /\ SinCambios

NextPuno == EsPunoCerrado

SpecPuno == InitPuno /\ [][NextPuno]_vars

\* the smoothers of both classes on their own: thumb tips are pushed one
\* after the other.  mapeo holds the point the last call pushed, how many
\* times in a row that point has been pushed (counted up to the window) and
\* the point the call returned
Pulgares == {<<x, y>> : x \in {150, 300, 450}, y \in {150, 250, 350}}

Racha(punto) ==
    IF mapeo.punto = punto THEN Min(SuavizadoMovimiento, mapeo.racha + 1) ELSE 1

InitSuavizado ==
    /\ impl \in {"_calcular_posicion_cursor", "_suavizar_movimiento"}
    /\ cg = CG_init(FALSE)
    /\ dg = DG_init("pantalla", FALSE)
    /\ EnReposo
    /\ mapeo = [punto |-> None, racha |-> 0, resultado |-> None]

\* ControladorGestos._calcular_posicion_cursor in mode pantalla, which pushes
\* the thumb tip mapped onto the screen
CG_Suavizar ==
    /\ impl = "_calcular_posicion_cursor"
    /\ \E pulgar \in Pulgares :
          \E r \in {CG_calcular_posicion_cursor(cg, pulgar)} :
              /\ cg' = r.s
              /\ mapeo' = [punto |-> <<Interp(pulgar[1], margen, ancho - margen, screen_width),
                                       Interp(pulgar[2], margen, altura - margen, screen_height)>>,
                           racha |-> Racha(<<Interp(pulgar[1], margen, ancho - margen, screen_width),
                                             Interp(pulgar[2], margen, altura - margen, screen_height)>>),
                           resultado |-> r.pos]
    /\ op' = "suavizar"
    /\ UNCHANGED <<impl, dg, info_gesto, acciones, rechazo, entrada, ruta,
                   desde_click, transcurrido, distancia, linea_base, permanencia>>

\* DetectorGestos._suavizar_movimiento, which pushes the thumb tip
DG_Suavizar ==
    /\ impl = "_suavizar_movimiento"
    /\ \E pulgar \in Pulgares :
          \E r \in {DG_suavizar_movimiento(dg, pulgar[1], pulgar[2])} :
              /\ dg' = r.s
              /\ mapeo' = [punto |-> pulgar, racha |-> Racha(pulgar), resultado |-> r.pos]
    /\ op' = "suavizar"
    /\ UNCHANGED <<impl, cg, info_gesto, acciones, rechazo, entrada, ruta,
                   desde_click, transcurrido, distancia, linea_base, permanencia>>

NextSuavizado ==
    \/ CG_Suavizar
    \/ DG_Suavizar

SpecSuavizado == InitSuavizado /\ [][NextSuavizado]_vars

\* the smoother of ControladorGestos in src/control_gestos_mejorado.py, whose
\* window the keys '+' and '-' change while the program runs.  Of that
\* object the model keeps the fields the smoother reads and writes, in cg
suavizado_minimo == 1
suavizado_maximo == 10

MJ_init ==
    [modo |-> "pantalla", suavizado |-> SuavizadoMovimiento, historial_posiciones |-> <<>>,
     en_calibracion |-> FALSE, calibracion_completada |-> FALSE,
     puntos_calibracion_camara |-> <<>>]

\* ajustar_suavizado
MJ_ajustar_suavizado(s, incremento) ==
    [s EXCEPT !.suavizado = Max(suavizado_minimo, Min(suavizado_maximo, @ + incremento))]

\* the cursor position of detectar_gestos_una_mano in mode pantalla
MJ_posicion_cursor(s, pulgar_punta) ==
    LET screen_x == Interp(pulgar_punta[1], margen, ancho - margen, screen_width)
        screen_y == Interp(pulgar_punta[2], margen, altura - margen, screen_height)
        largo == Append(s.historial_posiciones, <<screen_x, screen_y>>)
        hist == IF Len(largo) > s.suavizado THEN Tail(largo) ELSE largo
    IN  [s |-> [s EXCEPT !.historial_posiciones = hist],
         pos |-> <<Suma(hist, 1) \div Len(hist), Suma(hist, 2) \div Len(hist)>>]

PulgaresAjuste == {<<150, 150>>, <<450, 350>>}

InitAjuste ==
    /\ impl = "control_gestos_mejorado"
    /\ cg = MJ_init
    /\ dg = DG_init("pantalla", FALSE)
    /\ EnReposo
    /\ mapeo = [resultado |-> None]

\* a frame with one hand, in mode pantalla
MJ_Suavizar ==
    /\ impl = "control_gestos_mejorado"
    /\ \E pulgar \in PulgaresAjuste :
          \E r \in {MJ_posicion_cursor(cg, pulgar)} :
              /\ cg' = r.s
              /\ mapeo' = [resultado |-> r.pos]
    /\ op' = "suavizar"
    /\ UNCHANGED <<impl, dg, info_gesto, acciones, rechazo, entrada, ruta,
                   desde_click, transcurrido, distancia, linea_base, permanencia>>

\* keys '+' and '-' of main
MJ_TeclaMas ==
    /\ impl = "control_gestos_mejorado"
    /\ cg' = MJ_ajustar_suavizado(cg, 1)
    /\ op' = "ajustar_suavizado"
    /\ UNCHANGED <<impl, dg, info_gesto, acciones, rechazo, entrada, ruta, desde_click,
                   transcurrido, distancia, linea_base, permanencia, mapeo>>

MJ_TeclaMenos ==
    /\ impl = "control_gestos_mejorado"
    /\ cg' = MJ_ajustar_suavizado(cg, -1)
    /\ op' = "ajustar_suavizado"
    /\ UNCHANGED <<impl, dg, info_gesto, acciones, rechazo, entrada, ruta, desde_click,
                   transcurrido, distancia, linea_base, permanencia, mapeo>>

NextAjuste ==
    \/ MJ_Suavizar
    \/ MJ_TeclaMas
    \/ MJ_TeclaMenos

SpecAjuste == InitAjuste /\ [][NextAjuste]_vars

\* the calibration session of the same class.  Of the object the model keeps,
\* besides the above, the fields of the session; the matrix calibrar_mesa
\* solves for is written by the fourth point and read by no step of a session
tolerancia_mejorado == 60

\* iniciar_calibracion
MJ_iniciar_calibracion(s) ==
    [s EXCEPT !.en_calibracion = TRUE, !.puntos_calibracion_camara = <<>>]

\* cambiar_modo
MJ_cambiar_modo(s, nuevo_modo) ==
    LET t == [s EXCEPT !.modo = nuevo_modo, !.historial_posiciones = <<>>]
    IN  IF nuevo_modo = "mesa" /\ ~s.calibracion_completada
        THEN MJ_iniciar_calibracion(t) ELSE t

\* the loop of procesar_calibracion over the hands from hand k on, the
\* marker punto_actual having been chosen before the loop
RECURSIVE MJ_capturar(_, _, _, _)
MJ_capturar(puntos, manos, k, punto_actual) ==
    IF k > Len(manos) THEN [puntos |-> puntos, finalizada |-> FALSE]
    ELSE IF MenorQue(calcular_distancia2(P(manos[k], 8), CG_marcador(punto_actual + 1)),
                     tolerancia_mejorado)
         THEN IF Len(puntos) + 1 = 4
              THEN [puntos |-> Append(puntos, P(manos[k], 8)), finalizada |-> TRUE]
              ELSE MJ_capturar(Append(puntos, P(manos[k], 8)), manos, k + 1, punto_actual)
         ELSE MJ_capturar(puntos, manos, k + 1, punto_actual)

\* procesar_calibracion
MJ_procesar_calibracion(s, manos) ==
    LET punto_actual == Len(s.puntos_calibracion_camara)
    IN  IF Len(manos) > 0 /\ punto_actual < 4
        THEN MJ_capturar(s.puntos_calibracion_camara, manos, 1, punto_actual)
        ELSE [puntos |-> s.puntos_calibracion_camara, finalizada |-> FALSE]

\* procesar_frame during a calibration session
MJ_procesar_frame_calibracion(s, manos) ==
    LET r == MJ_procesar_calibracion(s, manos)
        t == [s EXCEPT !.puntos_calibracion_camara = r.puntos]
    IN  IF r.finalizada
        THEN [t EXCEPT !.en_calibracion = FALSE, !.calibracion_completada = TRUE]
        ELSE t

\* hands pointing at a marker, one beside the other
Vecino(a) == <<a[1] + 20, a[2]>>

FramesPareo ==
    {Entrada(<<>>)}
    \cup {Entrada(<<[pose |-> "abierta", en |-> a]>>) :
            a \in LugaresCalibracion \cup {Vecino(b) : b \in LugaresCalibracion}}
    \cup {Entrada(<<[pose |-> "abierta", en |-> a], [pose |-> "abierta", en |-> Vecino(a)]>>) :
            a \in LugaresCalibracion}

InitPareo ==
    /\ impl = "control_gestos_mejorado"
    /\ cg = MJ_init
    /\ dg = DG_init("pantalla", FALSE)
    /\ EnReposo
    /\ mapeo = [resultado |-> None]

\* a frame while the session runs
MJ_FrameCalibracion ==
    /\ impl = "control_gestos_mejorado"
    /\ cg.en_calibracion /\ cg.modo = "mesa"
    /\ \E frame \in FramesPareo :
          /\ cg' = MJ_procesar_frame_calibracion(cg, frame.manos)
          /\ entrada' = frame.poses
    /\ info_gesto' = InfoGesto("ninguno", None)
    /\ op' = "procesar_frame"
    /\ UNCHANGED <<impl, dg, acciones, rechazo, ruta, desde_click, transcurrido,
                   distancia, linea_base, permanencia, mapeo>>

\* key 'm' of main
MJ_TeclaM ==
    /\ impl = "control_gestos_mejorado"
    /\ cg' = MJ_cambiar_modo(cg, IF cg.modo = "pantalla" THEN "mesa" ELSE "pantalla")
    /\ op' = "cambiar_modo"
    /\ UNCHANGED <<impl, dg, info_gesto, acciones, rechazo, entrada, ruta, desde_click,
                   transcurrido, distancia, linea_base, permanencia, mapeo>>

\* key 'c' of main
MJ_TeclaC ==
    /\ impl = "control_gestos_mejorado"
    /\ cg.modo = "mesa"
    /\ cg' = MJ_iniciar_calibracion(cg)
    /\ op' = "iniciar_calibracion"
    /\ UNCHANGED <<impl, dg, info_gesto, acciones, rechazo, entrada, ruta, desde_click,
                   transcurrido, distancia, linea_base, permanencia, mapeo>>

NextPareo ==
    \/ MJ_FrameCalibracion
    \/ MJ_TeclaM
    \/ MJ_TeclaC

SpecPareo == InitPareo /\ [][NextPareo]_vars

(***************************************************************************)
(* What a frame shows and what the dispatcher did, for the properties      *)
(***************************************************************************)
\* the features of a hand in pose `pose`, as the classifier measures them
ManoDe(pose) == Mano(pose, PrimerLugar)

PinzaIndice(pose) ==
    MenorQue(calcular_distancia2(P(ManoDe(pose), 4), P(ManoDe(pose), 8)), distancia_pinza)

PinzaMedio(pose) ==
    MenorQue(calcular_distancia2(P(ManoDe(pose), 4), P(ManoDe(pose), 12)), distancia_pinza)

Puno(pose) == es_puno_cerrado(ManoDe(pose))

\* the number of calls of pyautogui.f among `llamadas`
VecesEn(llamadas, f) == Cardinality({k \in 1..Len(llamadas) : llamadas[k].f = f})

\* the number of calls of pyautogui.f the last operation made
Veces(f) == VecesEn(acciones, f)

\* the calls that press or release a mouse button
Botones == {"mouseDown", "mouseUp", "click", "doubleClick", "rightClick"}

BotonesEn(llamadas) == Cardinality({k \in 1..Len(llamadas) : llamadas[k].f \in Botones})

\* a frame with one hand whose thumb and index fingertips pinch
UnaPinzaIndice(poses) == Len(poses) = 1 /\ PinzaIndice(poses[1])

\* a frame with one hand that neither pinches nor is a fist
UnaManoAbierta(poses) ==
    Len(poses) = 1 /\ ~PinzaIndice(poses[1]) /\ ~PinzaMedio(poses[1]) /\ ~Puno(poses[1])

Zooms == {"zoom_in", "zoom_out"}

\* the last operation was a frame that went through gesture classification
FrameDeGestos == op = "procesar_frame" /\ ruta = "gestos"

\* the last frame showed exactly two hands, both closed fists
FrameDosPunos == Len(entrada) = 2 /\ Puno(entrada[1]) /\ Puno(entrada[2])

(***************************************************************************)
(* Properties                                                              *)
(***************************************************************************)
\* C1 (click latch idempotence, DetectorGestos): of two gesture frames in a
\* row, the first showing a one-hand index pinch, the second issues no
\* button action when it shows the pinch too (the gesture is held: its one
\* buttonDown was issued when it began), and exactly one buttonUp and no
\* other button action when it does not.
C1_PestilloClick ==
    [][(/\ op = "procesar_frame" /\ op' = "procesar_frame"
        /\ ruta = "gestos" /\ ruta' = "gestos"
        /\ ~rechazo /\ ~rechazo'
        /\ UnaPinzaIndice(entrada))
       => IF UnaPinzaIndice(entrada')
          THEN BotonesEn(acciones') = 0
          ELSE VecesEn(acciones', "mouseUp") = 1 /\ BotonesEn(acciones') = 1]_vars

\* C2 (release rule, ControladorGestos): a gesture frame processed while
\* clicking or dragging is set, whose gesture is neither Click nor Drag and
\* whose dispatch is not refused, issues exactly one mouseUp and leaves both
\* clicking and dragging false.
C2_Liberacion ==
    [][(/\ op' = "procesar_frame" /\ ruta' = "gestos"
        /\ cg.modo = "pantalla"
        /\ (cg.clicking \/ cg.dragging)
        /\ info_gesto'.tipo \notin {"click", "arrastrar"}
        /\ ~rechazo')
       => /\ VecesEn(acciones', "mouseUp") = 1
          /\ ~cg'.clicking
          /\ ~cg'.dragging]_vars

\* C3 (double-click timing, DetectorGestos): a frame with one hand pinching
\* thumb and index, classified as a gesture, gives DOBLE_CLICK when less than
\* doble_click_ventana (0.5 s) has passed since pyautogui.click last
\* succeeded, and CLICK_IZQUIERDO when that much or more has passed (or no
\* click succeeded yet).
C3_DobleClick ==
    (FrameDeGestos /\ UnaPinzaIndice(entrada))
    => info_gesto.tipo = (IF transcurrido < doble_click_ventana
                          THEN "doble_click"
                          ELSE "click_izquierdo")

\* a second pinch 0.4 s after a successful click is dispatched as a double click
C3_Testigo ==
    /\ FrameDeGestos
    /\ UnaPinzaIndice(entrada)
    /\ transcurrido = doble_click_ventana - 1
    /\ info_gesto.tipo = "doble_click"
    /\ Veces("doubleClick") = 1

\* C4 (zoom hysteresis, DetectorGestos): on a two-fist frame that continues
\* a run of two-fist frames whose first frame had distance B between the
\* fists, the event for the present distance D is ZOOM_IN iff D > 1.5 * B,
\* ZOOM_OUT iff D < 0.7 * B, and no zoom event otherwise (on the squares:
\* 4 * D^2 > 9 * B^2 and 100 * D^2 < 49 * B^2).
C4_Histeresis ==
    [][(/\ op' = "procesar_frame"
        /\ linea_base # SinDistancia
        /\ linea_base' # SinDistancia)
       => /\ (info_gesto'.tipo = "zoom_in") <=> (4 * distancia' > 9 * linea_base)
          /\ (info_gesto'.tipo = "zoom_out") <=> (100 * distancia' < 49 * linea_base)]_vars

\* C5 (zoom needs two fists, DetectorGestos): a frame gives ZOOM_IN or
\* ZOOM_OUT only when it shows exactly two hands and both are closed fists.
C5_ZoomSoloConPunos ==
    (op = "procesar_frame" /\ info_gesto.tipo \in Zooms) => FrameDosPunos

\* C6 (zoom session reset, ControladorGestos): the first two-fist frame
\* after a frame without two closed fists (or after none) gives no zoom event
\* and records its own distance as the baseline.
C6_SesionNueva ==
    [][(/\ op' = "procesar_frame" /\ ruta' = "gestos"
        /\ linea_base = SinDistancia
        /\ linea_base' # SinDistancia)
       => /\ info_gesto'.tipo \notin Zooms
          /\ cg'.distancia_punos_inicial = distancia']_vars

\* C7 (two-hand priority, ControladorGestos): a gesture frame with two
\* closed fists gives ZOOM_IN, ZOOM_OUT or no gesture, and presses no button.
C7_PrioridadDosManos ==
    (FrameDeGestos /\ FrameDosPunos)
    => /\ info_gesto.tipo \in Zooms \cup {"ninguno"}
       /\ BotonesEn(acciones) = 0

\* C8 (first match wins, ControladorGestos): on a one-hand gesture frame an
\* index pinch gives CLICK or ARRASTRAR whatever the middle pinch and the
\* fist test say; MENU_CONTEXTUAL is given only without an index pinch and
\* with a middle pinch; a CLICK without an index pinch is given only to a
\* closed fist with no middle pinch.
C8_PrimeraCoincidencia ==
    (FrameDeGestos /\ Len(entrada) = 1)
    => /\ PinzaIndice(entrada[1]) => info_gesto.tipo \in {"click", "arrastrar"}
       /\ info_gesto.tipo = "menu_contextual"
            => ~PinzaIndice(entrada[1]) /\ PinzaMedio(entrada[1])
       /\ (info_gesto.tipo = "click" /\ ~PinzaIndice(entrada[1]))
            => ~PinzaMedio(entrada[1]) /\ Puno(entrada[1])

C10_ClickDerechoUnaVez ==
    [][(/\ op = "procesar_frame" /\ op' = "procesar_frame"
        /\ ruta = "gestos" /\ ruta' = "gestos"
        /\ cg'.modo = "pantalla"
        /\ info_gesto.tipo # "menu_contextual"
        /\ info_gesto'.tipo = "menu_contextual"
        /\ ~rechazo')
       => /\ VecesEn(acciones', "rightClick") = 1
          /\ cg'.clicking = cg.clicking
          /\ cg'.dragging = cg.dragging]_vars

\* C11 (cursor movement on every positioned frame, DetectorGestos): a frame
\* whose event carries a position, whatever its type, and whose dispatch is
\* not refused, issues exactly one moveTo, to a point inside the screen
\* (0 <= x <= screen_width, 0 <= y <= screen_height).
C11_MoverEnCadaFrame ==
    (op = "procesar_frame" /\ info_gesto.posicion # None /\ ~rechazo)
    => /\ Veces("moveTo") = 1
       /\ \A k \in 1..Len(acciones) :
             acciones[k].f = "moveTo"
             => /\ 0 <= acciones[k].arg[1] /\ acciones[k].arg[1] <= screen_width
                /\ 0 <= acciones[k].arg[2] /\ acciones[k].arg[2] <= screen_height

\* C12 (zoom cooldown, ControladorGestos): of two frames in a row of the
\* capture loop, both classified ZOOM_IN or ZOOM_OUT, the second issues no
\* scroll when the first issued one (the loop takes the next frame as soon as
\* the last is processed, less than the cooldown of 100 ms later).
C12_EnfriamientoZoom ==
    [][(/\ op = "procesar_frame" /\ op' = "procesar_frame"
        /\ info_gesto.tipo \in Zooms /\ info_gesto'.tipo \in Zooms
        /\ Veces("scroll") > 0)
       => VecesEn(acciones', "scroll") = 0]_vars

\* C17 (calibration intercepts the frame, DetectorGestos): a frame processed
\* in mode mesa while calibrando is set and corners remain to be captured
\* gives the event NINGUNO without a position and makes no pyautogui call.
C17_CalibracionIntercepta ==
    [][(/\ op' = "procesar_frame"
        /\ dg.modo = "mesa" /\ dg.calibrando /\ dg.esquina_actual < 4)
       => /\ info_gesto'.tipo = "ninguno"
          /\ info_gesto'.posicion = None
          /\ acciones' = <<>>]_vars

\* C16 (solve failure, ControladorGestos): the frame that captures the
\* fourth point, and on which the solve over the four points gives no matrix,
\* leaves the session neither capturing nor calibrated and leaves
\* matriz_transformacion as it was.
C16_FalloDeSolucion ==
    [][(op' = "procesar_frame" /\ ruta' = "solucion_vacia")
       => /\ ~cg'.en_calibracion
          /\ ~cg'.calibracion_completada
          /\ cg'.matriz_transformacion = cg.matriz_transformacion]_vars

\* C18 (calibration completion, ControladorGestos): once four points are
\* captured and the solve gave a matrix, a frame with a hand processed in
\* mode mesa goes through the gesture classifier and its event carries a
\* position.
C18_CalibracionCompletada ==
    [][(/\ op' = "procesar_frame"
        /\ cg.modo = "mesa"
        /\ Len(cg.puntos_calibracion_camara) = 4
        /\ cg.calibracion_completada
        /\ cg.matriz_transformacion # Nula
        /\ Len(entrada') >= 1)
       => /\ ruta' = "gestos"
          /\ info_gesto'.posicion # None]_vars

\* C13 (dwell capture, DetectorGestos): a frame records a corner and moves
\* esquina_actual on by one only when every frame since the stay at that
\* corner began showed a fingertip within the tolerance of the corner, this
\* frame included, and the stay has lasted tiempo_requerido_calibracion (3 s)
\* or more; a frame without a hand ends the stay.
C13_PermanenciaCaptura ==
    [][(/\ op' = "procesar_frame"
        /\ impl = "DetectorGestos"
        /\ dg'.esquina_actual = dg.esquina_actual + 1)
       => /\ permanencia' # None
          /\ permanencia'[1] = dg.esquina_actual
          /\ permanencia'[2] >= tiempo_requerido_calibracion]_vars

\* C14 (dwell reset, DetectorGestos): a frame that shows a hand and no
\* fingertip within the tolerance of the pending corner, processed while the
\* dwell timer runs, stops the timer and records no point.
C14_ReinicioDePermanencia ==
    [][(/\ op' = "procesar_frame"
        /\ impl = "DetectorGestos"
        /\ dg.calibrando /\ dg.esquina_actual < 4
        /\ dg.punto_calibracion_activo
        /\ Len(entrada') >= 1
        /\ permanencia' = None)
       => /\ ~dg'.punto_calibracion_activo
          /\ dg'.esquina_actual = dg.esquina_actual
          /\ dg'.puntos_camara = dg.puntos_camara]_vars

C19_InicioDeCalibracion ==
    [][op' = "iniciar_calibracion"
       => /\ impl = "DetectorGestos"
             => IF dg.modo = "mesa"
                THEN /\ dg'.calibrando
                     /\ dg'.puntos_camara = <<>>
                     /\ dg'.puntos_proyeccion = <<>>
                     /\ dg'.esquina_actual = 0
                     /\ dg'.tiempo_en_punto = 0
                     /\ ~dg'.punto_calibracion_activo
                ELSE dg' = dg
          /\ impl = "ControladorGestos"
             => /\ cg'.en_calibracion
                /\ cg'.puntos_calibracion_camara = <<>>]_vars

\* calibration was started again while a fingertip stayed at a later corner
\* of a partly captured session
C19_Testigo ==
    /\ impl = "DetectorGestos"
    /\ op = "iniciar_calibracion"
    /\ dg.modo = "mesa"
    /\ permanencia # None
    /\ permanencia[1] >= 1
    /\ dg.esquina_actual = 0
    /\ dg.puntos_camara = <<>>

\* the third component of the product of the matrix and the point of the
\* last call of _transformar_coordenadas
TerceraComponente ==
    mapeo.matriz.num[3][1] * mapeo.punto[1] + mapeo.matriz.num[3][2] * mapeo.punto[2]
      + mapeo.matriz.num[3][3]

\* C20 (mapping with w = 0): a call of _transformar_coordenadas whose
\* transformed third component is zero returns the point it was given.
C20_SinDivision ==
    (op = "transformar_coordenadas" /\ TerceraComponente = 0)
    => mapeo.resultado = mapeo.punto

BajoSuBase(puntos, punta, base) == P(puntos, punta)[2] > P(puntos, base)[2]

\* the fingertip `punta` is closer to landmark 0 than 1.3 times the distance
\* from landmark 5 to landmark 0
CercaDeLaPalma(puntos, punta) ==
    100 * calcular_distancia2(P(puntos, punta), P(puntos, 0))
        < 169 * calcular_distancia2(P(puntos, 5), P(puntos, 0))

\* C22 (fist test): _es_puño_cerrado answers true exactly when at least 3 of
\* the fingertips 8, 12, 16, 20 are below their bases 5, 9, 13, 17 and at
\* least 3 of them are closer to landmark 0 than 1.3 times the distance from
\* landmark 5 to landmark 0, whatever the state of the object, which the call
\* leaves as it was.
C22_PunoCerrado ==
    (impl = "es_puno_cerrado" /\ op = "es_puno_cerrado") =>
        LET m == mapeo.puntos
            doblados == {d \in {<<8, 5>>, <<12, 9>>, <<16, 13>>, <<20, 17>>} : BajoSuBase(m, d[1], d[2])}
            cerca == {d \in {8, 12, 16, 20} : CercaDeLaPalma(m, d)}
        IN  /\ mapeo.resultado = (Cardinality(doblados) >= 3 /\ Cardinality(cerca) >= 3)
            /\ cg \in EstadosCG

\* the call on an object in the middle of a zoom session: three fingers
\* curled and the fourth stretched make a fist
C22_Testigo ==
    /\ impl = "es_puno_cerrado"
    /\ op = "es_puno_cerrado"
    /\ cg.zoom_mode
    /\ mapeo.dedos = <<"enroscado", "estirado", "enroscado", "enroscado">>
    /\ mapeo.resultado = TRUE

\* the last frame showed a hand with fewer than 21 landmarks
FrameIncompleto ==
    op = "procesar_frame" /\ \E k \in 1..Len(entrada) : entrada[k] = "incompleta"

\* C23 (incomplete hand): a frame with a hand of fewer than 21 landmarks
\* raises nothing out of procesar_frame, gives the event NINGUNO with no
\* position, makes no pyautogui call and leaves the gesture state of the
\* object (drag latch, last click, zoom session, smoothing history) as it was.
C23_ManoIncompleta ==
    [][(impl = "DetectorGestos" /\ FrameIncompleto')
        => /\ ruta' # "excepcion"
           /\ info_gesto' = InfoGesto("ninguno", None)
           /\ acciones' = <<>>
           /\ dg'.arrastrando = dg.arrastrando
           /\ dg'.zoom_activo = dg.zoom_activo
           /\ dg'.distancia_punos_anterior = dg.distancia_punos_anterior
           /\ dg'.historial_x = dg.historial_x
           /\ dg'.historial_y = dg.historial_y]_vars

C25_CambioDeModoReinicia ==
    (impl = "DetectorGestos" /\ op = "cambiar_modo")
        => /\ ~dg.arrastrando
           /\ ~dg.zoom_activo
           /\ dg.historial_x = <<>>
           /\ dg.historial_y = <<>>
           /\ dg.distancia_punos_anterior = 0
           /\ Ahora - dg.ultimo_click_tiempo >= doble_click_ventana

\* C26 (persisted calibration, DetectorGestos): while the object holds the
\* matrix it loaded from calibracion_matriz.npy at startup, a cursor position
\* of mode mesa reaches pyautogui mapped through that matrix.
C26_CalibracionCargada ==
    (/\ impl = "DetectorGestos"
     /\ FrameDeGestos
     /\ dg.modo = "mesa"
     /\ dg.matriz_transformacion = MatrizArchivo
     /\ info_gesto.tipo = "cursor"
     /\ ~rechazo)
        => acciones = <<Llamada("moveTo", transformar_coordenadas(MatrizArchivo, info_gesto.posicion))>>

\* C27 (moving average of a constant input): once the same point has been
\* pushed as many times in a row as the window is long, whatever was pushed
\* before, the smoother returns that very point.
C27_EntradaConstante ==
    (op = "suavizar" /\ mapeo.racha >= SuavizadoMovimiento)
        => mapeo.resultado = mapeo.punto

\* the smoother of DetectorGestos returns the point pushed over and over,
\* after other points were pushed
C27_Testigo ==
    /\ impl = "_suavizar_movimiento"
    /\ op = "suavizar"
    /\ mapeo.racha >= SuavizadoMovimiento
    /\ mapeo.punto = <<300, 250>>
    /\ mapeo.resultado = <<300, 250>>
    /\ Len(dg.historial_x) = SuavizadoMovimiento

\* C28 (bound of the smoothing window): after every push the history holds at
\* most as many points as the window is long at that moment, also when the
\* window was shortened with ajustar_suavizado before the push.
C28_VentanaAcotada ==
    (impl = "control_gestos_mejorado" /\ op = "suavizar")
        => Len(cg.historial_posiciones) <= cg.suavizado

\* C29 (drag promotion and anchor, ControladorGestos): a gesture frame whose
\* one hand pinches thumb and index (and neither pinches the middle finger
\* nor is a fist) is ARRASTRAR when clicking or dragging was set before the
\* frame and CLICK otherwise; every ARRASTRAR event carries the drag anchor;
\* and a gesture frame whose one hand does not pinch thumb and index leaves
\* no anchor.
C29_PromocionDeArrastre ==
    [][(impl = "ControladorGestos" /\ FrameDeGestos' /\ Len(entrada') = 1)
        => /\ (PinzaIndice(entrada'[1]) /\ ~PinzaMedio(entrada'[1]) /\ ~Puno(entrada'[1]))
                => info_gesto'.tipo = (IF cg.clicking \/ cg.dragging THEN "arrastrar" ELSE "click")
           /\ info_gesto'.tipo = "arrastrar" => info_gesto'.punto_inicial # None
           /\ ~PinzaIndice(entrada'[1]) => cg'.punto_inicial_arrastre = None]_vars

\* C30 (zoom baseline of a session, DetectorGestos): on every frame of a
\* two-fist session the baseline the object holds is the distance between
\* the fists on the first frame of the session, and a frame on which the
\* fists are more than 1.5 times as far apart as on that first frame gives
\* ZOOM_IN.
C30_LineaBaseFija ==
    (impl = "DetectorGestos" /\ FrameDeGestos /\ FrameDosPunos)
        => /\ dg.distancia_punos_anterior = linea_base
           /\ 4 * distancia > 9 * linea_base => info_gesto.tipo = "zoom_in"

\* C31 (fist click after a zoom session, ControladorGestos): a gesture frame
\* with exactly one hand that is a closed fist and pinches neither the index
\* nor the middle finger gives CLICK, whatever the frames before it were.
C31_ClickDePuno ==
    (/\ impl = "ControladorGestos"
     /\ FrameDeGestos
     /\ Len(entrada) = 1
     /\ Puno(entrada[1])
     /\ ~PinzaIndice(entrada[1])
     /\ ~PinzaMedio(entrada[1]))
        => info_gesto.tipo = "click"


\* C32: during a calibration session of the class of control_gestos_mejorado
\* a processed frame records at most one point, also when two hands are both
\* within the tolerance of the current marker, and every recorded point i lies
\* within the tolerance of marker i
PuntosEmparejados ==
    \A i \in 1..Len(cg.puntos_calibracion_camara) :
        MenorQue(calcular_distancia2(cg.puntos_calibracion_camara[i], CG_marcador(i)),
                 tolerancia_mejorado)

C32_UnPuntoPorFrame ==
    [][(impl = "control_gestos_mejorado" /\ op' = "procesar_frame")
          => /\ Len(cg'.puntos_calibracion_camara) <= Len(cg.puntos_calibracion_camara) + 1
             /\ PuntosEmparejados']_vars

\* C32 fails: a frame with two hands at the first marker has recorded two points
C32_DosPuntos ==
    ~(/\ impl = "control_gestos_mejorado" /\ op = "procesar_frame"
      /\ Len(entrada) = 2 /\ Len(cg.puntos_calibracion_camara) = 2
      /\ ~PuntosEmparejados)


\* C33: over any sequence of frames, mode switches and calibration starts of
\* ControladorGestos the mouseDown and mouseUp calls alternate and the clicking
\* latch follows them: an operation issues mouseDown only when it finds the
\* latch clear and sets it, issues mouseUp only when it finds a latch set and
\* clears clicking, and no operation sets or clears the latch without the call
C33_BotonYPestillo ==
    [][impl = "ControladorGestos"
          => /\ VecesEn(acciones', "mouseDown") + VecesEn(acciones', "mouseUp") <= 1
             /\ (~cg.clicking /\ cg'.clicking) <=> VecesEn(acciones', "mouseDown") = 1
             /\ (cg.clicking /\ ~cg'.clicking) => VecesEn(acciones', "mouseUp") = 1
             /\ VecesEn(acciones', "mouseUp") = 1 => ~cg'.clicking]_vars

\* C34: in every reachable state of ControladorGestos dragging implies
\* clicking
C34_ArrastreImplicaClick == impl = "ControladorGestos" => (cg.dragging => cg.clicking)

\* C34: the dragging latch is set while the button is held
C34_Testigo ==
    /\ impl = "ControladorGestos" /\ FrameDeGestos
    /\ info_gesto.tipo = "arrastrar" /\ cg.dragging /\ cg.clicking

\* C34, how the latches change: dragging is set only by a frame whose event is
\* Drag, a Drag event is produced only while clicking or dragging is latched,
\* and dragging is cleared only together with clicking
C34_CambiosDeArrastre ==
    [][impl = "ControladorGestos"
          => /\ (~cg.dragging /\ cg'.dragging)
                   => (op' = "procesar_frame" /\ info_gesto'.tipo = "arrastrar")
             /\ (op' = "procesar_frame" /\ info_gesto'.tipo = "arrastrar")
                   => (cg.clicking \/ cg.dragging)
             /\ (cg.dragging /\ ~cg'.dragging) => ~cg'.clicking]_vars

\* C35: while the mode of ControladorGestos is mesa the last operation issued
\* no pyautogui call, the clicking, dragging and right_clicking latches are
\* false and the event of the last frame is not Drag
C35_MesaSinAcciones ==
    (impl = "ControladorGestos" /\ cg.modo = "mesa")
        => /\ acciones = <<>>
           /\ ~cg.clicking /\ ~cg.dragging /\ ~cg.right_clicking
           /\ info_gesto.tipo # "arrastrar"

\* C35: in mode mesa a frame showed an index pinch, for which mode pantalla
\* presses the button, and its event has a cursor position
C35_Testigo ==
    /\ impl = "ControladorGestos" /\ cg.modo = "mesa" /\ FrameDeGestos
    /\ UnaPinzaIndice(entrada)
    /\ info_gesto.tipo = "click" /\ info_gesto.posicion # None

\* C36: in DetectorGestos, while calibrando is true the number of captured
\* camera points equals esquina_actual and esquina_actual is less than 4,
\* after any interleaving of frames with the keys 'm' and 'r'
C36_PuntosYEsquina ==
    (impl = "DetectorGestos" /\ dg.calibrando)
        => /\ Len(dg.puntos_camara) = dg.esquina_actual
           /\ dg.esquina_actual < 4

\* C36 fails also in its particular case: the session is stuck with
\* calibrando true and esquina_actual = 4
C36_SesionAtascada == ~(impl = "DetectorGestos" /\ dg.calibrando /\ dg.esquina_actual = 4)

\* C37: with a display larger than the camera frame, the corner a calibration
\* session of DetectorGestos is waiting for has a fingertip position inside
\* the camera frame within the tolerance of 50 px, so that the session can go
\* on to four captured points and end
C37_EsquinaAlcanzable ==
    (impl = "DetectorGestos" /\ dg.calibrando /\ dg.esquina_actual < 4)
        => \E p \in CuadroDeCamara :
              MenorQue(calcular_distancia2(p, DG_esquinas_proyeccion[dg.esquina_actual + 1]),
                       tolerancia_calibracion)

\* C37 fails: with every fingertip inside the camera frame no session gets
\* beyond the first corner
C37_SesionSinFin == impl = "DetectorGestos" => dg.esquina_actual <= 1

\* the first corner is captured by a fingertip inside the camera frame
C37_PrimeraEsquina ==
    /\ impl = "DetectorGestos" /\ dg.calibrando /\ dg.esquina_actual = 1
    /\ op = "procesar_frame" /\ Len(dg.puntos_camara) = 1
=============================================================================
